---- MODULE Spec2Model ----
(***************************************************************************)
(* A model of process_transcripts.py: the chunk packer of process_prefix   *)
(* (glob, sort, parallel parse, sequential packing loop) and the utterance *)
(* segmenter of html_to_markdown.  Strings are TLA+ strings; a character   *)
(* of a string s is SubSeq(s, i, i).                                       *)
(***************************************************************************)
EXTENDS Integers, Sequences, FiniteSets, TLC

VARIABLES
    by_year,                \* process_prefix's by_year argument
    files,                  \* the list glob returned, later sorted in place
    pc,                     \* where process_prefix stands
    results,                \* one slot per file: Pending, or the worker's result
    parsed_results,         \* the results without an 'error' key
    idx,                    \* position of the packing loop in parsed_results
    current_word_count,
    current_byte_count,
    current_chunk_content,  \* the episodes of the open chunk, in order
    chunk_start_ep,
    chunk_end_ep,
    current_year,
    written,                \* one entry per open(..., 'w') + writelines
    skipped,                \* the results reported as "Error processing file"
    stdout                  \* what process_prefix has printed, line by line

\* html_to_markdown's context-tracking pass
VARIABLES
    ep_num,                 \* html_to_markdown's ep_num argument
    date_ymd,               \* html_to_markdown's date_ymd argument
    lines,                  \* the sanitized, stripped, non-empty blocks
    li,                     \* position of "for line in lines"
    current_timestamp,
    current_speaker,
    buffer,
    current_prefix,
    final_lines,
    utterances,             \* per final line: its header and its text
    run,                    \* 0: no call; 1: first call; 2: call on own output
    spc                     \* where html_to_markdown stands

\* html_to_markdown's sanitizer
VARIABLES
    html_content,           \* html_to_markdown's html_content argument
    text,                   \* the text under substitution
    san                     \* where the sanitizer stands

\* parse_transcript_file
VARIABLES
    html,                   \* what f.read() returned
    file_ep_num,            \* _parse_single_file's ep_num, which its result carries
    parse_ep_num,           \* parse_transcript_file's ep_num
    parsed_title,           \* title
    parsed_date_str,        \* date_str
    parsed_year,            \* year
    raw_content,
    ymd_date,
    md_content,
    dpc                     \* where parse_transcript_file stands

\* fetch_transcripts.py: get_list_page and download_transcript_detail
VARIABLES
    fs,                     \* DATA_DIR: file name -> content, Absent if none
    fop,                    \* the function that is running or has returned
    fpc,                    \* where it stands
    page_num,               \* get_list_page's argument
    filename,
    retries,
    ret,                    \* what the function returned
    attempts,               \* the outcome of each urlopen attempt of the call
    fs_at_call,             \* fs when the function was called
    calls                   \* number of calls made so far

\* fetch_transcripts.py: fetch_grc_sn_transcripts
VARIABLES
    grc_fs,                 \* DATA_DIR: file name -> content, Absent if none
    grc_start,
    grc_end,
    ep,                     \* the loop variable
    grc_retries,
    stats,
    grc_attempts,           \* the outcome of each urlopen attempt for ep
    grc_ret,                \* what the function returned
    gpc                     \* where it stands

pvars == <<by_year, files, pc, results, parsed_results, idx, current_word_count,
           current_byte_count, current_chunk_content, chunk_start_ep,
           chunk_end_ep, current_year, written, skipped, stdout>>

hvars == <<html_content, text, san>>

dvars == <<html, file_ep_num, parse_ep_num, parsed_title, parsed_date_str, parsed_year,
           raw_content, ymd_date, md_content, dpc>>

svars == <<ep_num, date_ymd, lines, li, current_timestamp, current_speaker,
           buffer, current_prefix, final_lines, utterances, run, spc>>

fvars == <<fs, fop, fpc, page_num, filename, retries, ret, attempts,
           fs_at_call, calls>>

gvars == <<grc_fs, grc_start, grc_end, ep, grc_retries, stats, grc_attempts,
           grc_ret, gpc>>

vars == <<pvars, svars, hvars, dvars, fvars, gvars>>

\* What the packer, the segmenter, the sanitizer and parse_transcript_file
\* leave alone
notPacker == <<svars, hvars, dvars, fvars, gvars>>
notSegmenter == <<pvars, hvars, dvars, fvars, gvars>>
notSanitizer == <<pvars, dvars, fvars, gvars>>
notParser == <<pvars, fvars, gvars>>
notFetcher == <<pvars, svars, hvars, dvars, gvars>>
notGrc == <<pvars, svars, hvars, dvars, fvars>>

-----------------------------------------------------------------------------
(* Bounds and program constants *)

MaxFiles == 3

MAX_WORDS == 250000
MAX_BYTES == 104857600

\* Python's None for chunk_start_ep, chunk_end_ep and current_year
None == -1

\* Python's None where the value is otherwise a string
NoneStr == "<None>"

\* A result slot whose worker has not returned yet
Pending == [pending |-> TRUE]

prefix == "IM"

MaxLines == 2

MaxCalls == 2

\* The (ep_num, date_ymd) html_to_markdown is called with: its defaults, and
\* episode 100 of 1 January 2025
Episodes == { [ep_num |-> 0, date_ymd |-> "00-01-01"],
              [ep_num |-> 100, date_ymd |-> "25-01-01"] }

\* href values of anchors: the three allowed beginnings, and others
Hrefs == { "http://example.com", "https://e.com/a", "/x", "//e.com",
           "javascript:alert(1)", "ftp://e.com", "mailto:a@b", "",
           "HTTP://E.COM", " http://e.com", "x/http://e.com" }

\* Inner texts of anchors
AnchorTexts == { "x", "Link" }

\* An anchor element with the attributes attrs before its href
Anchor(attrs, href, inner) ==
    "<a " \o attrs \o "href=\"" \o href \o "\">" \o inner \o "</a>"

\* Attributes standing before the href of an anchor
AnchorAttrs == { "", "class=\"c\" " }

AnchorDocs == { Anchor(a, h, t) : a \in AnchorAttrs, h \in Hrefs, t \in AnchorTexts }

\* Bodies with no timestamp and no speaker label
PlainDocs ==
    { "",
      "<p>Hello <b>World</b></p>",
      "<ul><li>Item 1</li><li>Item 2</li></ul>",
      "<script>ignore me</script><p>Para 1</p><ul><li>Item 1</li><li>Item 2</li></ul><br><p>Para 2</p>",
      "<h1>Title</h1><h2>Sub</h2>",
      "Hello <i>there</i> R&amp;D",
      "one<span>two</span>",
      "one<u>two</u>",
      "*Please be advised this transcript is AI-generated and may not be word for word.*<p>Hi</p>" }

\* No such file
Absent == "<absent>"

\* Nothing returned yet
Unset == "<unset>"

\* The list pages asked for: two that are always downloaded, one that may be
\* served from its cached file
Pages == { 1, 5, 6 }

\* The titles of list items, with and without an episode number
ItemTitles == { "This Week in Tech 638 Transcript", "Holiday Special" }

\* The prefixes of the shows downloaded
ItemPrefixes == { "TWIT" }

\* What the server can answer to a request
ServerContents == { "<html>v1</html>", "<html>v2</html>" }

\* What a file stored by an earlier run holds
StoredContent == "<html>Cached</html>"

\* The parts of a stored document: a title element, a byline element and a
\* body, each of which may be missing
TitleParts == { "",
                "<h1 class=\"post-title\">Show 100</h1>",
                "<h1 class=\"post-title\"> This Week in Tech 638 Transcript </h1>",
                "<h1 class=\"post-title\">Windows Weekly 7 of 2020 (Special)</h1>" }
BylineParts == { "",
                 "<p class=\"byline\"> Jan 1st 2025 </p>",
                 "<p class=\"byline\">Wednesday,\n February 18th, 2026</p>",
                 "<p class=\"byline\">No year here</p>",
                 "<p class=\"byline\">May 21, 2025</p>",
                 "<p class=\"byline\">Mar 28, 2008</p>",
                 "<p class=\"byline\">Feb 30th 2025</p>",
                 "<p class=\"byline\">Wednesday, Feb 18, 2026</p>" }
BodyParts == { "<bad_html>",
               "<div class=\"body textual\"><p>Transcript content.</p></div>",
               "<div class=\"body textual\"></div>",
               "<div class=\"body textual\"><p>Leo: Hi",
               "<b>Transcript of Episode 100</b><p>Leo: Hi</p>" }

\* What f.read() can return
Documents == { t \o b \o c : t \in TitleParts, b \in BylineParts, c \in BodyParts }

\* The ep_num parse_transcript_file is called with
FileEpNums == { 0, 5 }

\* The html_content html_to_markdown is called with
Htmls == AnchorDocs \cup PlainDocs

\* Sanitized blocks: one or two for each pattern, and two that match none
Blocks == { "1:05:32 - Leo Laporte: Welcome to the show.",
            "1:05 Welcome everybody",
            "2:10 - Well. That is it: so",
            "Jeff Jarvis [0:15]: Hello",
            "Jeff Jarvis (0:15): Hello",
            "(0:20): Right",
            "**Leo Laporte:** Hi there",
            "Leo:",
            "Great to be here.",
            "and so on" }

\* Sanitized blocks whose content holds a timestamp of its own, which two
\* patterns match, with blocks that one pattern or none matches, a label
\* with no content and a block with runs of whitespace
OverlapBlocks == { "Leo Laporte: see [1:02] now",
                   "(0:20): as I said (0:10) before",
                   "1:05 Jeff [0:15]: Hello",
                   "(0:20): Right",
                   "**Leo Laporte:** Hi there",
                   "Leo:",
                   "So  it \t goes" }

\* Names the data directory can hold that the pattern IM_*.html matches
FileNames == {"IM_5.html", "IM_05.html", "IM_12.html", "IM_unknown.html"}

\* What a readable document parses to, as far as the packer reads it:
\* the year of its byline, len(content.split()) and the UTF-8 size of the
\* formatted episode block; text is the number of words of that block, which
\* adds to the content the lines "# Episode: {title}" and "**Date:**
\* {date_str}" and the separator "---" (9 words for a title of two words and
\* a date of three)
\* (0 is what extract_year gives a byline without a 4-digit number)
Years == {0, 2024}
Sizes == { [words |-> 200000, bytes |-> 2000000,   text |-> 200009],
           [words |-> 1000,   bytes |-> 40000000,  text |-> 1009],
           [words |-> 300000, bytes |-> 3000000,   text |-> 300009],
           [words |-> 2000,   bytes |-> 110000000, text |-> 2009],
           [words |-> 249000, bytes |-> 2500000,   text |-> 249009] }

-----------------------------------------------------------------------------
(* Strings *)

Digit == {"0", "1", "2", "3", "4", "5", "6", "7", "8", "9"}

CharAt(s, i) == SubSeq(s, i, i)

DigitValue(c) ==
    CASE c = "0" -> 0 [] c = "1" -> 1 [] c = "2" -> 2 [] c = "3" -> 3
      [] c = "4" -> 4 [] c = "5" -> 5 [] c = "6" -> 6 [] c = "7" -> 7
      [] c = "8" -> 8 [] c = "9" -> 9

\* int(s) for a string of decimal digits
RECURSIVE StrToInt(_)
StrToInt(s) ==
    IF Len(s) = 0 THEN 0
    ELSE 10 * StrToInt(SubSeq(s, 1, Len(s) - 1)) + DigitValue(CharAt(s, Len(s)))

\* The end (exclusive) of the longest run of digits of s that starts at i
RECURSIVE DigitsEnd(_, _)
DigitsEnd(s, i) ==
    IF i <= Len(s) /\ CharAt(s, i) \in Digit THEN DigitsEnd(s, i + 1) ELSE i

\* EP_NUM_RE = r'_(\d+)\.html' tried at position i: the end of the digits, or 0.
\* \d+ is greedy and a shorter run is followed by a digit, never by '.', so
\* only the longest run can match.
EpNumMatchAt(s, i) ==
    LET e == DigitsEnd(s, i + 1)
    IN  IF /\ CharAt(s, i) = "_"
           /\ e > i + 1
           /\ e + 4 <= Len(s)
           /\ SubSeq(s, e, e + 4) = ".html"
        THEN e ELSE 0

\* EP_NUM_RE.search: the leftmost position where the pattern matches, or 0
RECURSIVE EpNumSearch(_, _)
EpNumSearch(s, i) ==
    IF i > Len(s) THEN 0
    ELSE IF EpNumMatchAt(s, i) > 0 THEN i
    ELSE EpNumSearch(s, i + 1)

get_ep_num(fname) ==
    LET i == EpNumSearch(fname, 1)
    IN  IF i > 0 THEN StrToInt(SubSeq(fname, i + 1, EpNumMatchAt(fname, i) - 1))
        ELSE 0

-----------------------------------------------------------------------------
(* Regular expressions, matched as Python's re matches them: by            *)
(* backtracking, the alternatives tried in priority order, the first       *)
(* complete match returned.                                                 *)

Upper == {"A", "B", "C", "D", "E", "F", "G", "H", "I", "J", "K", "L", "M",
          "N", "O", "P", "Q", "R", "S", "T", "U", "V", "W", "X", "Y", "Z"}
Lower == {"a", "b", "c", "d", "e", "f", "g", "h", "i", "j", "k", "l", "m",
          "n", "o", "p", "q", "r", "s", "t", "u", "v", "w", "x", "y", "z"}
\* \s
Space == {" ", "\t", "\n", "\r", "\f"}

\* Pattern nodes
Chr(S) == <<"in", S>>                    \* one character of S
NotChr(S) == <<"notin", S>>              \* one character not in S
Cat(ns) == <<"cat", ns>>                 \* the nodes of ns, one after another
Star(n) == <<"star", n>>                 \* n*
Plus(n) == Cat(<<n, Star(n)>>)           \* n+
LazyStar(n) == <<"lazystar", n>>         \* n*?
LazyPlus(n) == Cat(<<n, LazyStar(n)>>)   \* n+?
Opt(n) == <<"opt", n>>                   \* n?
UpTo2(n) == Opt(Cat(<<n, Opt(n)>>))      \* n{0,2}
Group(k, n) == Cat(<< <<"open", k>>, n, <<"close", k>> >>)   \* (n), group k
Dot == NotChr({"\n"})                    \* .
AnyChar == NotChr({})                    \* . under re.DOTALL
Alt(ns) == <<"alt", ns>>                 \* n1|n2|..., tried in this order
Backref(k) == <<"backref", k>>           \* \k
EndOfString == <<"end">>                 \* $

LowerLetters == "abcdefghijklmnopqrstuvwxyz"
UpperLetters == "ABCDEFGHIJKLMNOPQRSTUVWXYZ"

\* The characters that c matches under re.IGNORECASE
BothCases(c) ==
    IF c \in Lower \cup Upper
    THEN LET k == CHOOSE j \in 1..26 :
                     c \in {SubSeq(LowerLetters, j, j), SubSeq(UpperLetters, j, j)}
         IN  {SubSeq(LowerLetters, k, k), SubSeq(UpperLetters, k, k)}
    ELSE {c}

\* The literal text str
Lit(str) == <<"lit", str, FALSE>>

\* The literal text str under re.IGNORECASE
LitI(str) == <<"lit", str, TRUE>>

\* Whether the literal text str stands at position i of s
LitAt(str, ignore_case, s, i) ==
    /\ i + Len(str) - 1 <= Len(s)
    /\ \A k \in 1..Len(str) :
          IF ignore_case
          THEN SubSeq(s, i + k - 1, i + k - 1) \in BothCases(SubSeq(str, k, k))
          ELSE SubSeq(s, i + k - 1, i + k - 1) = SubSeq(str, k, k)

NoMatch == [ok |-> FALSE]

\* No group has taken part in the match yet
NoGroups == [k \in 1..3 |-> <<0, 0>>]

\* Whether the one-character node n accepts the character c
Accepts(n, c) == IF n[1] = "in" THEN c \in n[2] ELSE c \notin n[2]

IsCharNode(n) == n[1] \in {"in", "notin"}

\* The element of a one-element set
Only(S) == CHOOSE x \in S : TRUE

Least(S) == CHOOSE j \in S : \A k \in S : j <= k
Greatest(S) == CHOOSE j \in S : \A k \in S : j >= k

\* Where the longest run of characters accepted by n that starts at i ends
\* (exclusive)
RunEnd(n, s, i) ==
    Least({ j \in i..(Len(s) + 1) : j = Len(s) + 1 \/ ~Accepts(n, CharAt(s, j)) })

\* The first way, in backtracking order, to match the nodes of todo one
\* after another from position i of s; groups holds the (start, end) of the
\* groups closed so far.  A repetition of a one-character node takes the
\* longest run first and gives back one character at a time (greedy), or
\* takes nothing first and one character more at a time (lazy): the run
\* length chosen is the greatest, or the least, after which the rest matches.
\* Of the pairs <<position, match of the rest from it>> in R, the match at
\* the greatest position (greedy) or the least (lazy) where the rest matches
BestOf(R, greedy) ==
    LET oks == { p \in R : p[2].ok }
    IN  IF oks = {} THEN NoMatch
        ELSE (CHOOSE p \in oks :
                 \A q \in oks : IF greedy THEN q[1] <= p[1] ELSE q[1] >= p[1])[2]

\* The first of two alternatives that matches
FirstOk(first, second) == IF first.ok THEN first ELSE second

RECURSIVE MatchFrom(_, _, _, _)
MatchFrom(todo, s, i, groups) ==
    IF Len(todo) = 0 THEN [ok |-> TRUE, groups |-> groups, end |-> i]
    ELSE
      LET n == Head(todo)
          rest == Tail(todo)
          kind == n[1]
      IN  CASE kind \in {"in", "notin"} ->
                 IF i <= Len(s) /\ Accepts(n, CharAt(s, i))
                 THEN MatchFrom(rest, s, i + 1, groups) ELSE NoMatch
            [] kind = "cat" -> MatchFrom(n[2] \o rest, s, i, groups)
            [] kind \in {"star", "lazystar"} /\ IsCharNode(n[2]) ->
                 Only({ BestOf(R, kind = "star") :
                        R \in {{ <<j, MatchFrom(rest, s, j, groups)>> :
                                    j \in i..RunEnd(n[2], s, i) }} })
            [] kind = "star" /\ ~IsCharNode(n[2]) ->
                 Only({ FirstOk(more, MatchFrom(rest, s, i, groups)) :
                        more \in {MatchFrom(<<n[2], n>> \o rest, s, i, groups)} })
            [] kind = "lazystar" /\ ~IsCharNode(n[2]) ->
                 Only({ FirstOk(none, MatchFrom(<<n[2], n>> \o rest, s, i, groups)) :
                        none \in {MatchFrom(rest, s, i, groups)} })
            [] kind = "opt" ->
                 Only({ FirstOk(with, MatchFrom(rest, s, i, groups)) :
                        with \in {MatchFrom(<<n[2]>> \o rest, s, i, groups)} })
            [] kind = "lit" ->
                 IF LitAt(n[2], n[3], s, i)
                 THEN MatchFrom(rest, s, i + Len(n[2]), groups) ELSE NoMatch
            [] kind = "end" ->
                 IF i = Len(s) + 1 \/ (i = Len(s) /\ CharAt(s, i) = "\n")
                 THEN MatchFrom(rest, s, i, groups) ELSE NoMatch
            [] kind = "alt" ->
                 Only({ BestOf(R, FALSE) :
                        R \in {{ <<k, MatchFrom(<<n[2][k]>> \o rest, s, i, groups)>> :
                                    k \in 1..Len(n[2]) }} })
            [] kind = "backref" ->
                 LET g == SubSeq(s, groups[n[2]][1], groups[n[2]][2] - 1)
                 IN  IF /\ i + Len(g) - 1 <= Len(s)
                        /\ SubSeq(s, i, i + Len(g) - 1) = g
                     THEN MatchFrom(rest, s, i + Len(g), groups)
                     ELSE NoMatch
            [] kind = "open" ->
                 MatchFrom(rest, s, i, [groups EXCEPT ![n[2]] = <<i, 0>>])
            [] kind = "close" ->
                 MatchFrom(rest, s, i,
                           [groups EXCEPT ![n[2]] = <<groups[n[2]][1], i>>])

\* regex.match(s): the pattern is tried at the start of s only
RegexMatch(regex, s) == MatchFrom(<<regex>>, s, 1, NoGroups)

\* regex.search(s, i): the leftmost match that starts at i or later, with
\* the position it starts at
RegexSearch(regex, s, i) ==
    Only({ IF \A p \in R : ~p[2].ok THEN NoMatch
           ELSE Only({ [ok |-> TRUE, start |-> p[1], end |-> p[2].end,
                        groups |-> p[2].groups] :
                       p \in { q \in R : q[2].ok /\ \A o \in R : o[2].ok => q[1] <= o[1] } }) :
           R \in {{ <<j, MatchFrom(<<regex>>, s, j, NoGroups)>> : j \in i..(Len(s) + 1) }} })

\* regex.finditer(s): the matches, leftmost first, none overlapping another
RECURSIVE FindAll(_, _, _)
FindAll(regex, s, i) ==
    IF i > Len(s) + 1 THEN <<>>
    ELSE Only({ IF ~m.ok THEN <<>>
                ELSE <<m>> \o FindAll(regex, s, IF m.end > m.start THEN m.end
                                                ELSE m.end + 1) :
                m \in {RegexSearch(regex, s, i)} })

\* s with the k-th match and every later one replaced by its replacement;
\* i is where the text not yet copied starts
RECURSIVE Splice(_, _, _, _, _)
Splice(s, ms, repls, k, i) ==
    IF k > Len(ms) THEN SubSeq(s, i, Len(s))
    ELSE SubSeq(s, i, ms[k].start - 1) \o repls[k]
             \o Splice(s, ms, repls, k + 1, ms[k].end)

\* regex.sub(Repl, subject), Repl giving the replacement of a match in the
\* subject
ReSub(regex, Repl(_, _), subject) ==
    Only({ Only({ Splice(s, ms, [k \in 1..Len(ms) |-> Repl(ms[k], s)], 1, 1) :
                  ms \in {FindAll(regex, s, 1)} }) :
           s \in {subject} })

\* subject.replace(old, new)
StrReplace(subject, old, new) == ReSub(Lit(old), LAMBDA m, s : new, subject)

\* match.group(k): None for a group that took no part in the match
MatchGroup(m, s, k) ==
    IF m.groups[k][2] = 0 THEN NoneStr
    ELSE SubSeq(s, m.groups[k][1], m.groups[k][2] - 1)

\* \d+:\d+(?::\d+)?
TimestampRe ==
    Cat(<<Plus(Chr(Digit)), Chr({":"}), Plus(Chr(Digit)),
          Opt(Cat(<<Chr({":"}), Plus(Chr(Digit))>>))>>)

\* [a-zA-Z'.\-]
NameChar == Upper \cup Lower \cup {"'", ".", "-"}

\* [A-Z][a-zA-Z'.\-]+
NameWordRe == Cat(<<Chr(Upper), Plus(Chr(NameChar))>>)

\* ^\*{0,2}([A-Z][a-zA-Z'.\-]+(?:\s+[A-Z][a-zA-Z'.\-]+)*)\*{0,2}\s*:\s*\*{0,2}\s*(.*)
SPEAKER_NAME_RE ==
    Cat(<<UpTo2(Chr({"*"})),
          Group(1, Cat(<<NameWordRe,
                         Star(Cat(<<Plus(Chr(Space)), NameWordRe>>))>>)),
          UpTo2(Chr({"*"})), Star(Chr(Space)), Chr({":"}), Star(Chr(Space)),
          UpTo2(Chr({"*"})), Star(Chr(Space)), Group(2, Star(Dot))>>)

\* ^(\d+:\d+(?::\d+)?)\s*(?:-\s*)?([^:]+)(?::\s*(.*))?
Pattern1 ==
    Cat(<<Group(1, TimestampRe), Star(Chr(Space)),
          Opt(Cat(<<Chr({"-"}), Star(Chr(Space))>>)),
          Group(2, Plus(NotChr({":"}))),
          Opt(Cat(<<Chr({":"}), Star(Chr(Space)), Group(3, Star(Dot))>>))>>)

\* ^(.+?)\s*\[(\d+:\d+(?::\d+)?)\s*\]\s*:?\s*(.*)
Pattern2 ==
    Cat(<<Group(1, LazyPlus(Dot)), Star(Chr(Space)), Chr({"["}),
          Group(2, TimestampRe), Star(Chr(Space)), Chr({"]"}),
          Star(Chr(Space)), Opt(Chr({":"})), Star(Chr(Space)),
          Group(3, Star(Dot))>>)

\* ^(.+?)\s*\(\s*(\d+:\d+(?::\d+)?)\s*\)\s*:?\s*(.*)
Pattern3 ==
    Cat(<<Group(1, LazyPlus(Dot)), Star(Chr(Space)), Chr({"("}),
          Star(Chr(Space)), Group(2, TimestampRe), Star(Chr(Space)),
          Chr({")"}), Star(Chr(Space)), Opt(Chr({":"})), Star(Chr(Space)),
          Group(3, Star(Dot))>>)

\* ^\(\s*(\d+:\d+(?::\d+)?)\s*\)\s*:?\s*(.*)
Pattern4 ==
    Cat(<<Chr({"("}), Star(Chr(Space)), Group(1, TimestampRe),
          Star(Chr(Space)), Chr({")"}), Star(Chr(Space)), Opt(Chr({":"})),
          Star(Chr(Space)), Group(2, Star(Dot))>>)

METADATA_REGEXES == <<Pattern1, Pattern2, Pattern3, Pattern4, SPEAKER_NAME_RE>>

-----------------------------------------------------------------------------
(* Python string methods used by html_to_markdown *)

\* s.strip()
strip(s) ==
    LET inked == { j \in 1..Len(s) : CharAt(s, j) \notin Space }
    IN  IF inked = {} THEN "" ELSE SubSeq(s, Least(inked), Greatest(inked))

\* s.lstrip(':')
lstrip_colons(s) ==
    SubSeq(s, Least({ j \in 1..(Len(s) + 1) : j = Len(s) + 1 \/ CharAt(s, j) /= ":" }),
           Len(s))

\* s.startswith(c) for a one-character c
startswith(s, c) == Len(s) > 0 /\ CharAt(s, 1) = c

\* re.sub(r'\s+', ' ', s) on s[lo..hi]: a character that is not whitespace
\* stays, the first character of a whitespace run becomes one space and the
\* others go
RECURSIVE CollapseRange(_, _, _)
CollapseRange(s, lo, hi) ==
    IF lo > hi THEN ""
    ELSE IF lo = hi
         THEN IF CharAt(s, lo) \notin Space THEN CharAt(s, lo)
              ELSE IF lo = 1 \/ CharAt(s, lo - 1) \notin Space THEN " " ELSE ""
    ELSE LET mid == (lo + hi) \div 2
         IN  CollapseRange(s, lo, mid) \o CollapseRange(s, mid + 1, hi)

CollapseWhitespace(s) == CollapseRange(s, 1, Len(s))

\* sep.join(parts)
RECURSIVE Join(_, _)
Join(parts, sep) ==
    IF Len(parts) = 0 THEN ""
    ELSE IF Len(parts) = 1 THEN parts[1]
    ELSE Join(SubSeq(parts, 1, Len(parts) - 1), sep) \o sep \o parts[Len(parts)]

\* s[i..].split('\n')
RECURSIVE SplitLinesFrom(_, _)
SplitLinesFrom(s, i) ==
    LET breaks == { j \in i..Len(s) : CharAt(s, j) = "\n" }
    IN  IF breaks = {} THEN <<SubSeq(s, i, Len(s))>>
        ELSE <<SubSeq(s, i, Least(breaks) - 1)>> \o SplitLinesFrom(s, Least(breaks) + 1)

\* Python's truth value of a string or None
StrTruthy(s) == s /= NoneStr /\ s /= ""

-----------------------------------------------------------------------------
(* html_to_markdown: the context-tracking pass *)

\* The blocks of a text that holds no markup, no entity and no disclaimer
\* (the substitutions before text.split('\n') leave such a text as it is):
\* the pieces between newlines, stripped, the empty ones dropped
SanitizedBlocks(t) ==
    IF t = "" THEN <<>>
    ELSE LET pieces == SplitLinesFrom(t, 1)
             stripped == [k \in 1..Len(pieces) |-> strip(pieces[k])]
         IN  SelectSeq(stripped, LAMBDA b : b /= "")

-----------------------------------------------------------------------------
(* html_to_markdown: the sanitizer's patterns *)

\* [^>]
NotGt == NotChr({">"})

\* <(script|style).*?</\1>, re.DOTALL
SCRIPT_STYLE_RE ==
    Cat(<<Lit("<"), Group(1, Alt(<<Lit("script"), Lit("style")>>)),
          LazyStar(AnyChar), Lit("</"), Backref(1), Lit(">")>>)

\* </?(?:span|font|o:p|body|html|head|meta|link|style|script|center|st1:[^>]+
\* |shape|path|imagedata|v:[^>]+)[^>]*>, re.IGNORECASE
NoiseTagRe ==
    Cat(<<Lit("<"), Opt(Lit("/")),
          Alt(<<LitI("span"), LitI("font"), LitI("o:p"), LitI("body"),
                LitI("html"), LitI("head"), LitI("meta"), LitI("link"),
                LitI("style"), LitI("script"), LitI("center"),
                Cat(<<LitI("st1:"), Plus(NotGt)>>), LitI("shape"),
                LitI("path"), LitI("imagedata"),
                Cat(<<LitI("v:"), Plus(NotGt)>>)>>),
          Star(NotGt), Lit(">")>>)

\* \*?Please be advised this transcript is AI-generated.*?(?:ad-supported
\* version of the show|approximate times|word for word)\.?\*?,
\* re.DOTALL | re.IGNORECASE
disclaimer_pattern ==
    Cat(<<Opt(Lit("*")),
          LitI("Please be advised this transcript is AI-generated"),
          LazyStar(AnyChar),
          Alt(<<LitI("ad-supported version of the show"),
                LitI("approximate times"), LitI("word for word")>>),
          Opt(Lit(".")), Opt(Lit("*"))>>)

\* <tag[^>]*>(.*?)</tag>, re.DOTALL: H1_RE, H2_RE, H3_RE and P_RE
ElementRe(tag) ==
    Cat(<<Lit("<" \o tag), Star(NotGt), Lit(">"), Group(1, LazyStar(AnyChar)),
          Lit("</" \o tag \o ">")>>)

H1_RE == ElementRe("h1")
H2_RE == ElementRe("h2")
H3_RE == ElementRe("h3")
P_RE == ElementRe("p")

\* <br\s*/?>
BR_RE == Cat(<<Lit("<br"), Star(Chr(Space)), Opt(Lit("/")), Lit(">")>>)

\* <(a|b)[^>]*>(.*?)</\1>, re.DOTALL: BOLD_RE and ITALIC_RE
PairedRe(a, b) ==
    Cat(<<Lit("<"), Group(1, Alt(<<Lit(a), Lit(b)>>)), Star(NotGt), Lit(">"),
          Group(2, LazyStar(AnyChar)), Lit("</"), Backref(1), Lit(">")>>)

BOLD_RE == PairedRe("b", "strong")
ITALIC_RE == PairedRe("i", "em")

\* <a\s+(?:[^>]*?\s+)?href="([^"]*)"[^>]*>(.*?)</a>, re.DOTALL
A_RE ==
    Cat(<<Lit("<a"), Plus(Chr(Space)),
          Opt(Cat(<<LazyStar(NotGt), Plus(Chr(Space))>>)),
          Lit("href=\""), Group(1, Star(NotChr({"\""}))), Lit("\""),
          Star(NotGt), Lit(">"), Group(2, LazyStar(AnyChar)), Lit("</a>")>>)

\* </?(?:p|br|div|tr|table|ul|ol|li|h1|h2|h3)[^>]*>, re.IGNORECASE
StructuralTagRe ==
    Cat(<<Lit("<"), Opt(Lit("/")),
          Alt(<<LitI("p"), LitI("br"), LitI("div"), LitI("tr"), LitI("table"),
                LitI("ul"), LitI("ol"), LitI("li"), LitI("h1"), LitI("h2"),
                LitI("h3")>>),
          Star(NotGt), Lit(">")>>)

\* <[^>]+>
TAG_RE == Cat(<<Lit("<"), Plus(NotGt), Lit(">")>>)

-----------------------------------------------------------------------------
(* html_to_markdown: the sanitizer's steps *)

\* s.startswith(p)
StartsWithStr(s, p) == Len(s) >= Len(p) /\ SubSeq(s, 1, Len(p)) = p

\* "Surgical Noise Cleaning": script and style elements, noise tags and the
\* disclaimer are removed
NoiseCleaned(t) ==
    ReSub(disclaimer_pattern, LAMBDA m, s : "",
          ReSub(NoiseTagRe, LAMBDA m, s : "",
                ReSub(SCRIPT_STYLE_RE, LAMBDA m, s : "", t)))

\* "Formatting Tags": headings, paragraphs, line breaks, bold and italic
Formatted(t) ==
    ReSub(ITALIC_RE, LAMBDA m, s : "*" \o MatchGroup(m, s, 2) \o "*",
      ReSub(BOLD_RE, LAMBDA m, s : "**" \o MatchGroup(m, s, 2) \o "**",
        ReSub(BR_RE, LAMBDA m, s : "\n",
          ReSub(P_RE, LAMBDA m, s : MatchGroup(m, s, 1) \o "\n\n",
            ReSub(H3_RE, LAMBDA m, s : "### " \o MatchGroup(m, s, 1) \o "\n\n",
              ReSub(H2_RE, LAMBDA m, s : "## " \o MatchGroup(m, s, 1) \o "\n\n",
                ReSub(H1_RE, LAMBDA m, s : "# " \o MatchGroup(m, s, 1) \o "\n\n",
                      t)))))))

\* A step that marks no break tag
StructureUnmarked(t) == t

\* "Structural Tag Preservation": break tags become the marker
StructureMarked(t) == ReSub(StructuralTagRe, LAMBDA m, s : "__PARA__", t)

\* A replacement that makes a link of every anchor, whatever its href
LinkAlways(url, content) == " [" \o content \o "](" \o url \o ") "

\* sanitize_link(match)
sanitize_link(url, content) ==
    IF \/ StartsWithStr(url, "/")
       \/ StartsWithStr(url, "http://")
       \/ StartsWithStr(url, "https://")
    THEN " [" \o content \o "](" \o url \o ") "
    ELSE " " \o content \o " "

\* "Links": A_RE.sub(sanitize_link, text)
Linked(t) ==
    ReSub(A_RE,
          LAMBDA m, s : sanitize_link(MatchGroup(m, s, 1), MatchGroup(m, s, 2)),
          t)

\* "Strip ALL other remaining tags"
TagsStripped(t) == ReSub(TAG_RE, LAMBDA m, s : " ", t)

\* "Normalize entities"
EntitiesNormalized(t) ==
    StrReplace(StrReplace(StrReplace(StrReplace(StrReplace(StrReplace(
        t, "&nbsp;", " "), "&amp;", "&"), "&lt;", "<"), "&gt;", ">"),
        "&quot;", "\""), "&#39;", "'")

\* The marker becomes a newline, and the text is split into its stripped,
\* non-empty blocks
BlocksOf(t) == SanitizedBlocks(StrReplace(t, "__PARA__", "\n"))

\* A search that applies the last of the patterns that match
RECURSIVE LastMatch(_, _)
LastMatch(line, i) ==
    IF i > Len(METADATA_REGEXES) THEN [i |-> 0]
    ELSE Only({ IF later.i /= 0 THEN later
                ELSE Only({ IF m.ok THEN [i |-> i, m |-> m] ELSE [i |-> 0] :
                            m \in {RegexMatch(METADATA_REGEXES[i], line)} }) :
                later \in {LastMatch(line, i + 1)} })

\* "for i, regex in enumerate(METADATA_REGEXES)": the first pattern from
\* the i-th on that matches the line, with its match; i = 0 when none does
RECURSIVE FirstMatch(_, _)
FirstMatch(line, i) ==
    IF i > Len(METADATA_REGEXES) THEN [i |-> 0]
    ELSE Only({ IF m.ok THEN [i |-> i, m |-> m] ELSE FirstMatch(line, i + 1) :
                m \in {RegexMatch(METADATA_REGEXES[i], line)} })

\* The patterns tried from the last to the first
TriedInReverse(line) == LastMatch(line, 1)

\* The inner "for ... break" loop over the whole list: the first pattern
\* that matches the line
TriedInOrder(line) == FirstMatch(line, 1)

\* any(c in s for c in '.!?')
HasSentencePunctuation(s) ==
    \E j \in 1..Len(s) : CharAt(s, j) \in {".", "!", "?"}

\* match.group(k) or ""
GroupOrEmpty(m, s, k) ==
    IF MatchGroup(m, s, k) = NoneStr THEN "" ELSE MatchGroup(m, s, k)

\* The branch of pattern i: the timestamp, speaker and content after it,
\* from the timestamp ts and speaker sp before it
ApplyPattern(i, m, line, ts, sp) ==
    CASE i = 1 ->
           IF CharAt(line, 1) \in Digit
           THEN LET potential_speaker == strip(MatchGroup(m, line, 2))
                    rest == GroupOrEmpty(m, line, 3)
                IN  IF /\ Len(potential_speaker) < 40
                       /\ ~HasSentencePunctuation(potential_speaker)
                    THEN [timestamp |-> MatchGroup(m, line, 1),
                          speaker |-> potential_speaker,
                          content |-> strip(rest)]
                    ELSE [timestamp |-> MatchGroup(m, line, 1),
                          speaker |-> sp,
                          content |-> potential_speaker
                              \o (IF rest /= "" THEN ": " \o rest ELSE "")]
           ELSE [timestamp |-> ts, speaker |-> sp, content |-> line]
      [] i \in {2, 3} ->
           [timestamp |-> strip(MatchGroup(m, line, 2)),
            speaker |-> strip(MatchGroup(m, line, 1)),
            content |-> strip(MatchGroup(m, line, 3))]
      [] i = 4 ->
           [timestamp |-> strip(MatchGroup(m, line, 1)),
            speaker |-> sp,
            content |-> strip(MatchGroup(m, line, 2))]
      [] i = 5 ->
           [timestamp |-> ts,
            speaker |-> strip(MatchGroup(m, line, 1)),
            content |-> strip(MatchGroup(m, line, 2))]

\* What one line does to the context: found_new_metadata, the timestamp and
\* speaker after the line, and the content it contributes
Attribution(line, ts, sp) ==
    Only({ IF f.i = 0
           THEN [found |-> FALSE, timestamp |-> ts, speaker |-> sp, content |-> line]
           ELSE Only({ [found |-> TRUE, timestamp |-> u.timestamp,
                        speaker |-> u.speaker,
                        content |-> IF startswith(u.content, ":")
                                    THEN strip(lstrip_colons(u.content))
                                    ELSE u.content] :
                       u \in {ApplyPattern(f.i, f.m, line, ts, sp)} }) :
           f \in {TriedInOrder(line)} })

\* A meta-prefix that shows the speaker only
SpeakerOnlyPrefix(ts, sp) ==
    "EP:" \o ToString(ep_num) \o " Date:" \o date_ymd
        \o (IF StrTruthy(sp) THEN " - " \o sp ELSE " -")

\* The meta-prefix built from the context after the line
MetaPrefix(ts, sp) ==
    "EP:" \o ToString(ep_num) \o " Date:" \o date_ymd
        \o (IF StrTruthy(ts) THEN " TS:" \o ts ELSE "")
        \o (IF StrTruthy(sp) THEN " - " \o sp ELSE " -")

\* A flush that joins the buffer and leaves its whitespace as it is
UncollapsedText == Join(buffer, " ")

\* The text flush_buffer() makes of the buffer
BufferText == strip(CollapseWhitespace(Join(buffer, " ")))

\* flush_buffer() appends a line when the buffer holds text
Flushes == buffer /= <<>> /\ BufferText /= ""

\* A flush that appends the text with no header
FlushedTextOnly == BufferText

\* The line flush_buffer() appends
FlushedLine == current_prefix \o " - " \o BufferText

\* A flush that leaves the buffer as it is before the content is appended
KeepsBuffer(content) ==
    IF content /= "" THEN Append(buffer, content) ELSE buffer

\* The buffer after a matched block: flush_buffer() has cleared it, then
\* "if content: buffer.append(content)"
NewBuffer(content) ==
    IF content /= "" THEN <<content>> ELSE <<>>

\* An unmatched block that starts the buffer over
StartsOver(line) == <<line>>

\* The buffer after an unmatched block: "buffer.append(line)"
Continued(line) == Append(buffer, line)

\* One iteration of "for line in lines".  The "if not line: continue" never
\* applies: lines holds stripped, non-empty blocks only.
SegmentLine ==
    /\ spc = "segment"
    /\ li <= Len(lines)
    /\ \E a \in {Attribution(strip(lines[li]), current_timestamp, current_speaker)} :
       LET line == strip(lines[li])
           new_prefix == MetaPrefix(a.timestamp, a.speaker)
       IN  /\ current_timestamp' = a.timestamp
           /\ current_speaker' = a.speaker
           /\ IF a.found
              THEN /\ final_lines' = IF Flushes THEN Append(final_lines, FlushedLine)
                                     ELSE final_lines
                   /\ utterances' = IF Flushes
                                    THEN Append(utterances,
                                                [header |-> current_prefix,
                                                 text |-> BufferText])
                                    ELSE utterances
                   /\ current_prefix' = new_prefix
                   /\ buffer' = NewBuffer(a.content)
              ELSE /\ current_prefix' = IF current_prefix = NoneStr THEN new_prefix
                                        ELSE current_prefix
                   /\ buffer' = Continued(line)
                   /\ UNCHANGED <<final_lines, utterances>>
    /\ li' = li + 1
    /\ UNCHANGED <<ep_num, date_ymd, lines, run, spc, notSegmenter>>

\* The flush_buffer() after the loop and the return of
\* "\n\n".join(final_lines)
FinishSegmenting ==
    /\ spc = "segment"
    /\ li > Len(lines)
    /\ final_lines' = IF Flushes THEN Append(final_lines, FlushedLine)
                      ELSE final_lines
    /\ utterances' = IF Flushes
                     THEN Append(utterances,
                                 [header |-> current_prefix, text |-> BufferText])
                     ELSE utterances
    /\ buffer' = <<>>
    /\ spc' = "done"
    /\ UNCHANGED <<ep_num, date_ymd, lines, li, current_timestamp,
                   current_speaker, current_prefix, run, notSegmenter>>

\* html_to_markdown is called again on what the first call returned, with
\* the same ep_num and date_ymd
Reprocess ==
    /\ spc = "done"
    /\ run = 1
    /\ run' = 2
    /\ lines' = SanitizedBlocks(Join(final_lines, "\n\n"))
    /\ li' = 1
    /\ current_timestamp' = NoneStr
    /\ current_speaker' = NoneStr
    /\ buffer' = <<>>
    /\ current_prefix' = NoneStr
    /\ final_lines' = <<>>
    /\ utterances' = <<>>
    /\ spc' = "segment"
    /\ UNCHANGED <<ep_num, date_ymd, notSegmenter>>

\* html_to_markdown is not sanitizing
SanitizerIdle ==
    /\ html_content = NoneStr
    /\ text = NoneStr
    /\ san = "idle"

\* fetch_grc_sn_transcripts is not running
GrcIdle ==
    /\ grc_fs = <<>>
    /\ grc_start = 0
    /\ grc_end = 0
    /\ ep = 0
    /\ grc_retries = 0
    /\ stats = <<>>
    /\ grc_attempts = <<>>
    /\ grc_ret = Unset
    /\ gpc = "idle"

\* The fetcher is not running
FetcherIdle ==
    /\ GrcIdle
    /\ fs = <<>>
    /\ fop = "none"
    /\ fpc = "idle"
    /\ page_num = 0
    /\ filename = NoneStr
    /\ retries = 0
    /\ ret = Unset
    /\ attempts = <<>>
    /\ fs_at_call = <<>>
    /\ calls = 0

\* parse_transcript_file is not running
ParserIdle ==
    /\ html = NoneStr
    /\ file_ep_num = None
    /\ parse_ep_num = None
    /\ parsed_title = NoneStr
    /\ parsed_date_str = NoneStr
    /\ parsed_year = None
    /\ raw_content = NoneStr
    /\ ymd_date = NoneStr
    /\ md_content = NoneStr
    /\ dpc = "idle"

\* No run of process_prefix is under way
PackerIdle ==
    /\ by_year = FALSE
    /\ files = <<>>
    /\ pc = "idle"
    /\ results = <<>>
    /\ parsed_results = <<>>
    /\ idx = 1
    /\ current_word_count = 0
    /\ current_byte_count = 0
    /\ current_chunk_content = <<>>
    /\ chunk_start_ep = None
    /\ chunk_end_ep = None
    /\ current_year = None
    /\ written = <<>>
    /\ skipped = <<>>
    /\ stdout = <<>>

\* Sequences of elements of S of length at most n
SeqsUpTo(S, n) == UNION { [1..k -> S] : k \in 0..n }

\* A call html_to_markdown(html, ep_num, date_ymd) whose html the sanitizer
\* has turned into the blocks of lines
SegInit ==
    /\ PackerIdle
    /\ SanitizerIdle
    /\ ParserIdle
    /\ FetcherIdle
    /\ \E e \in Episodes : ep_num = e.ep_num /\ date_ymd = e.date_ymd
    /\ lines \in SeqsUpTo(Blocks, MaxLines)
    /\ li = 1
    /\ current_timestamp = NoneStr
    /\ current_speaker = NoneStr
    /\ buffer = <<>>
    /\ current_prefix = NoneStr
    /\ final_lines = <<>>
    /\ utterances = <<>>
    /\ run = 1
    /\ spc = "segment"

SegNext == SegmentLine \/ FinishSegmenting \/ Reprocess

\* A call html_to_markdown(html, ep_num, date_ymd) over blocks that several
\* patterns match
OverlapInit ==
    /\ PackerIdle
    /\ SanitizerIdle
    /\ ParserIdle
    /\ FetcherIdle
    /\ \E e \in Episodes : ep_num = e.ep_num /\ date_ymd = e.date_ymd
    /\ lines \in SeqsUpTo(OverlapBlocks, MaxLines)
    /\ li = 1
    /\ current_timestamp = NoneStr
    /\ current_speaker = NoneStr
    /\ buffer = <<>>
    /\ current_prefix = NoneStr
    /\ final_lines = <<>>
    /\ utterances = <<>>
    /\ run = 1
    /\ spc = "segment"

OverlapSpec == OverlapInit /\ [][SegNext]_vars

SegSpec == SegInit /\ [][SegNext]_vars

-----------------------------------------------------------------------------
(* Metadata parsing: extract_year, parse_date_ymd, extract_ep_from_title *)

\* (\d{4})
YEAR_RE == Group(1, Cat(<<Chr(Digit), Chr(Digit), Chr(Digit), Chr(Digit)>>))

\* (\d+)\s*(?:\(|$|[Tt]ranscript)
TITLE_EP_RE ==
    Cat(<<Group(1, Plus(Chr(Digit))), Star(Chr(Space)),
          Alt(<<Lit("("), EndOfString,
                Cat(<<Chr({"T", "t"}), Lit("ranscript")>>)>>)>>)

\* <h1 class="post-title">(.*?)</h1>
TITLE_RE ==
    Cat(<<Lit("<h1 class=\"post-title\">"), Group(1, LazyStar(Dot)),
          Lit("</h1>")>>)

\* <p class="byline">(.*?)</p>, re.DOTALL
BYLINE_RE ==
    Cat(<<Lit("<p class=\"byline\">"), Group(1, LazyStar(AnyChar)),
          Lit("</p>")>>)

\* <div class="body textual">(.*?)</div>, re.DOTALL
CONTENT_RE ==
    Cat(<<Lit("<div class=\"body textual\">"), Group(1, LazyStar(AnyChar)),
          Lit("</div>")>>)

\* int(match.group(1)) if match else 0, for match = regex.search(s)
FirstNumber(regex, s) ==
    Only({ IF m.ok THEN StrToInt(MatchGroup(m, s, 1)) ELSE 0 :
           m \in {RegexSearch(regex, s, 1)} })

extract_year(date_str) == FirstNumber(YEAR_RE, date_str)

\* A fallback that takes the first number of the title
FirstNumberOfTitle(title) ==
    IF title = "" THEN 0 ELSE FirstNumber(Group(1, Plus(Chr(Digit))), title)

extract_ep_from_title(title) ==
    IF title = "" THEN 0 ELSE FirstNumber(TITLE_EP_RE, title)

\* (\d+)(st|nd|rd|th)
OrdinalRe ==
    Cat(<<Group(1, Plus(Chr(Digit))),
          Alt(<<Lit("st"), Lit("nd"), Lit("rd"), Lit("th")>>)>>)

\* The names strptime knows, in calendar order
MonthNames == <<"january", "february", "march", "april", "may", "june", "july",
                "august", "september", "october", "november", "december">>
MonthAbbrs == <<"jan", "feb", "mar", "apr", "may", "jun", "jul", "aug", "sep",
                "oct", "nov", "dec">>

\* strptime's patterns of %B, %b, %A, %d and %Y
FullMonthRe ==
    Alt(<<LitI("september"), LitI("february"), LitI("november"),
          LitI("december"), LitI("january"), LitI("october"), LitI("august"),
          LitI("march"), LitI("april"), LitI("june"), LitI("july"),
          LitI("may")>>)
AbbrMonthRe == Alt([k \in 1..12 |-> LitI(MonthAbbrs[k])])
WeekdayRe ==
    Alt(<<LitI("wednesday"), LitI("thursday"), LitI("saturday"),
          LitI("tuesday"), LitI("monday"), LitI("friday"), LitI("sunday")>>)
DayRe ==
    Alt(<<Cat(<<Chr({"3"}), Chr({"0", "1"})>>),
          Cat(<<Chr({"1", "2"}), Chr(Digit)>>),
          Cat(<<Chr({"0"}), Chr(Digit \ {"0"})>>),
          Chr(Digit \ {"0"}),
          Cat(<<Chr({" "}), Chr(Digit \ {"0"})>>)>>)
YearRe == Cat(<<Chr(Digit), Chr(Digit), Chr(Digit), Chr(Digit)>>)

\* A space of a format: \s+
Gap == Plus(Chr(Space))

\* The five formats as strptime compiles them; group 1 is the month, group
\* 2 the day, group 3 the year; names tells full month names from
\* abbreviated ones
formats ==
    << [names |-> MonthNames,       \* %B %d %Y
        regex |-> Cat(<<Group(1, FullMonthRe), Gap, Group(2, DayRe), Gap,
                        Group(3, YearRe)>>)],
       [names |-> MonthAbbrs,       \* %b %d %Y
        regex |-> Cat(<<Group(1, AbbrMonthRe), Gap, Group(2, DayRe), Gap,
                        Group(3, YearRe)>>)],
       [names |-> MonthNames,       \* %A, %B %d, %Y
        regex |-> Cat(<<WeekdayRe, Lit(","), Gap, Group(1, FullMonthRe), Gap,
                        Group(2, DayRe), Lit(","), Gap, Group(3, YearRe)>>)],
       [names |-> MonthNames,       \* %B %d, %Y
        regex |-> Cat(<<Group(1, FullMonthRe), Gap, Group(2, DayRe), Lit(","),
                        Gap, Group(3, YearRe)>>)],
       [names |-> MonthAbbrs,       \* %b %d, %Y
        regex |-> Cat(<<Group(1, AbbrMonthRe), Gap, Group(2, DayRe), Lit(","),
                        Gap, Group(3, YearRe)>>)] >>

\* The number of the month whose name is g, whatever the case of g
MonthNumber(names, g) ==
    CHOOSE k \in 1..12 : Len(names[k]) = Len(g) /\ LitAt(names[k], TRUE, g, 1)

IsLeapYear(y) == y % 4 = 0 /\ (y % 100 /= 0 \/ y % 400 = 0)

DaysInMonth(y, m) ==
    IF m = 2 THEN (IF IsLeapYear(y) THEN 29 ELSE 28)
    ELSE IF m \in {4, 6, 9, 11} THEN 30 ELSE 31

\* strftime's %y, %m, %d: two digits
Pad2(n) == IF n < 10 THEN "0" \o ToString(n) ELSE ToString(n)

\* strptime(clean_date, fmt): ValueError when the format does not match the
\* whole string or the date does not exist, else the date
strptime(clean_date, fmt) ==
    Only({ IF ~m.ok \/ m.end /= Len(clean_date) + 1 THEN [ok |-> FALSE]
           ELSE LET y == StrToInt(MatchGroup(m, clean_date, 3))
                    mo == MonthNumber(fmt.names, MatchGroup(m, clean_date, 1))
                    d == StrToInt(strip(MatchGroup(m, clean_date, 2)))
                IN  IF y < 1 \/ d > DaysInMonth(y, mo) THEN [ok |-> FALSE]
                    ELSE [ok |-> TRUE, year |-> y, month |-> mo, day |-> d] :
           m \in {RegexMatch(fmt.regex, clean_date)} })

\* "for fmt in formats": the YY-MM-DD of the first format from the k-th on
\* that parses, the fallback when none does
RECURSIVE FirstFormat(_, _)
FirstFormat(clean_date, k) ==
    IF k > Len(formats) THEN "00-01-01"
    ELSE Only({ IF dt.ok
                THEN Pad2(dt.year % 100) \o "-" \o Pad2(dt.month) \o "-"
                         \o Pad2(dt.day)
                ELSE FirstFormat(clean_date, k + 1) :
                dt \in {strptime(clean_date, formats[k])} })

\* A parse that keeps the ordinal suffixes
ParseWithOrdinals(date_str) ==
    IF date_str = "" THEN "00-01-01" ELSE FirstFormat(date_str, 1)

parse_date_ymd(date_str) ==
    IF date_str = "" THEN "00-01-01"
    ELSE FirstFormat(ReSub(OrdinalRe, LAMBDA m, s : MatchGroup(m, s, 1), date_str),
                     1)

-----------------------------------------------------------------------------
(* html_to_markdown from its html_content argument: the sanitizer, then the
   context-tracking pass *)

\* "if not html_content: return ''"
EarlyReturn ==
    /\ san = "start"
    /\ html_content = ""
    /\ san' = "done"
    /\ spc' = "done"
    /\ UNCHANGED <<html_content, text, ep_num, date_ymd, lines, li,
                   current_timestamp, current_speaker, buffer, current_prefix,
                   final_lines, utterances, run, notSanitizer>>

NoiseCleaning ==
    /\ san = "start"
    /\ html_content /= ""
    /\ text' = NoiseCleaned(html_content)
    /\ san' = "format"
    /\ UNCHANGED <<html_content, svars, notSanitizer>>

FormattingTags ==
    /\ san = "format"
    /\ text' = Formatted(text)
    /\ san' = "structure"
    /\ UNCHANGED <<html_content, svars, notSanitizer>>

StructuralTags ==
    /\ san = "structure"
    /\ text' = StructureMarked(text)
    /\ san' = "links"
    /\ UNCHANGED <<html_content, svars, notSanitizer>>

Links ==
    /\ san = "links"
    /\ text' = Linked(text)
    /\ san' = "tags"
    /\ UNCHANGED <<html_content, svars, notSanitizer>>

StripRemainingTags ==
    /\ san = "tags"
    /\ text' = TagsStripped(text)
    /\ san' = "entities"
    /\ UNCHANGED <<html_content, svars, notSanitizer>>

NormalizeEntities ==
    /\ san = "entities"
    /\ text' = EntitiesNormalized(text)
    /\ san' = "split"
    /\ UNCHANGED <<html_content, svars, notSanitizer>>

\* The blocks go to the context-tracking pass
SplitBlocks ==
    /\ san = "split"
    /\ san' = "done"
    /\ lines' = BlocksOf(text)
    /\ spc' = "segment"
    /\ UNCHANGED <<html_content, text, ep_num, date_ymd, li, current_timestamp,
                   current_speaker, buffer, current_prefix, final_lines,
                   utterances, run, notSanitizer>>

\* A call html_to_markdown(html_content, ep_num, date_ymd)
SanInit ==
    /\ PackerIdle
    /\ ParserIdle
    /\ FetcherIdle
    /\ html_content \in Htmls
    /\ text = NoneStr
    /\ san = "start"
    /\ \E e \in Episodes : ep_num = e.ep_num /\ date_ymd = e.date_ymd
    /\ lines = <<>>
    /\ li = 1
    /\ current_timestamp = NoneStr
    /\ current_speaker = NoneStr
    /\ buffer = <<>>
    /\ current_prefix = NoneStr
    /\ final_lines = <<>>
    /\ utterances = <<>>
    /\ run = 1
    /\ spc = "sanitize"

SanNext ==
    \/ EarlyReturn
    \/ NoiseCleaning
    \/ FormattingTags
    \/ StructuralTags
    \/ Links
    \/ StripRemainingTags
    \/ NormalizeEntities
    \/ SplitBlocks
    \/ SegmentLine
    \/ FinishSegmenting

SanSpec == SanInit /\ [][SanNext]_vars

-----------------------------------------------------------------------------
(* parse_transcript_file *)

\* match.group(1).strip() if match else default, for match = regex.search(h)
StrippedGroupOr(regex, h, default) ==
    Only({ IF m.ok THEN strip(MatchGroup(m, h, 1)) ELSE default :
           m \in {RegexSearch(regex, h, 1)} })

\* title
TitleOf(h) == StrippedGroupOr(TITLE_RE, h, "Unknown Episode")

\* date_str, after WHITESPACE_RE.sub(' ', date_str)
DateStrOf(h) == CollapseWhitespace(StrippedGroupOr(BYLINE_RE, h, "Unknown Date"))

\* html.find(marker): the index (from 1) of the first occurrence, 0 for none
Find(h, marker) ==
    LET at == { i \in 1..(Len(h) - Len(marker) + 1) :
                   SubSeq(h, i, i + Len(marker) - 1) = marker }
    IN  IF at = {} THEN 0 ELSE Least(at)

\* A body selection with no fallback
RawContentOrEmpty(h) ==
    Only({ IF m.ok THEN MatchGroup(m, h, 1) ELSE "" :
           m \in {RegexSearch(CONTENT_RE, h, 1)} })

\* raw_content
RawContentOf(h) ==
    Only({ IF m.ok THEN MatchGroup(m, h, 1)
           ELSE IF Find(h, "Transcript of Episode") > 0
                THEN SubSeq(h, Find(h, "Transcript of Episode"), Len(h))
                ELSE h :
           m \in {RegexSearch(CONTENT_RE, h, 1)} })

\* The searches, the defaults, the year and the title fallback of the
\* episode number
ExtractMetadata ==
    /\ dpc = "read"
    /\ parsed_title' = TitleOf(html)
    /\ parsed_date_str' = DateStrOf(html)
    /\ parsed_year' = extract_year(DateStrOf(html))
    /\ parse_ep_num' = IF parse_ep_num = 0 THEN extract_ep_from_title(TitleOf(html))
                       ELSE parse_ep_num
    /\ dpc' = "body"
    /\ UNCHANGED <<html, file_ep_num, raw_content, ymd_date, md_content, svars, hvars,
                   notParser>>

\* The body fragment, or its fallbacks
SelectBody ==
    /\ dpc = "body"
    /\ raw_content' = RawContentOf(html)
    /\ dpc' = "date"
    /\ UNCHANGED <<html, file_ep_num, parse_ep_num, parsed_title, parsed_date_str, parsed_year, ymd_date,
                   md_content, svars, hvars, notParser>>

\* ymd_date = parse_date_ymd(date_str), and the call
\* html_to_markdown(raw_content, ep_num=ep_num, date_ymd=ymd_date)
CallHtmlToMarkdown ==
    /\ dpc = "date"
    /\ ymd_date' = parse_date_ymd(parsed_date_str)
    /\ html_content' = raw_content
    /\ ep_num' = parse_ep_num
    /\ date_ymd' = parse_date_ymd(parsed_date_str)
    /\ san' = "start"
    /\ spc' = "sanitize"
    /\ run' = 1
    /\ dpc' = "markdown"
    /\ UNCHANGED <<html, file_ep_num, parse_ep_num, parsed_title, parsed_date_str, parsed_year, raw_content,
                   md_content, text, lines, li, current_timestamp,
                   current_speaker, buffer, current_prefix, final_lines,
                   utterances, notParser>>

\* "return title, date_str, year, md_content"
ReturnParsed ==
    /\ dpc = "markdown"
    /\ spc = "done"
    /\ md_content' = Join(final_lines, "\n\n")
    /\ dpc' = "returned"
    /\ UNCHANGED <<html, file_ep_num, parse_ep_num, parsed_title, parsed_date_str, parsed_year, raw_content,
                   ymd_date, svars, hvars, notParser>>

\* _parse_single_file has taken ep_num = get_ep_num(filepath) and calls
\* parse_transcript_file(filepath, ep_num=ep_num) on a readable file
DocInit ==
    /\ PackerIdle
    /\ SanitizerIdle
    /\ FetcherIdle
    /\ html \in Documents
    /\ file_ep_num \in FileEpNums
    /\ parse_ep_num = file_ep_num
    /\ parsed_title = NoneStr
    /\ parsed_date_str = NoneStr
    /\ parsed_year = None
    /\ raw_content = NoneStr
    /\ ymd_date = NoneStr
    /\ md_content = NoneStr
    /\ dpc = "read"
    /\ ep_num = 0
    /\ date_ymd = "00-01-01"
    /\ lines = <<>>
    /\ li = 1
    /\ current_timestamp = NoneStr
    /\ current_speaker = NoneStr
    /\ buffer = <<>>
    /\ current_prefix = NoneStr
    /\ final_lines = <<>>
    /\ utterances = <<>>
    /\ run = 0
    /\ spc = "idle"

DocNext ==
    \/ ExtractMetadata
    \/ SelectBody
    \/ CallHtmlToMarkdown
    \/ ReturnParsed
    \/ EarlyReturn
    \/ NoiseCleaning
    \/ FormattingTags
    \/ StructuralTags
    \/ Links
    \/ StripRemainingTags
    \/ NormalizeEntities
    \/ SplitBlocks
    \/ SegmentLine
    \/ FinishSegmenting

DocSpec == DocInit /\ [][DocNext]_vars

-----------------------------------------------------------------------------
(* files.sort(key=get_ep_num): a stable sort *)

\* seq with x put after the last element whose key is <= x's key
RECURSIVE InsertByKey(_, _)
InsertByKey(seq, x) ==
    IF Len(seq) = 0 THEN <<x>>
    ELSE IF get_ep_num(seq[Len(seq)]) <= get_ep_num(x) THEN Append(seq, x)
    ELSE Append(InsertByKey(SubSeq(seq, 1, Len(seq) - 1), x), seq[Len(seq)])

\* The list left in the order glob returned it
Unsorted(seq) == seq

RECURSIVE SortByEpNum(_)
SortByEpNum(seq) ==
    IF Len(seq) = 0 THEN <<>>
    ELSE InsertByKey(SortByEpNum(SubSeq(seq, 1, Len(seq) - 1)), seq[Len(seq)])

\* Sequences of distinct elements of S of length at most n
DistinctSeqs(S, n) ==
    UNION { { q \in [1..k -> S] : \A a, b \in 1..k : a /= b => q[a] /= q[b] }
            : k \in 0..n }

-----------------------------------------------------------------------------
(* process_prefix *)

\* No call of html_to_markdown is under way
SegmenterIdle ==
    /\ ep_num = 0
    /\ date_ymd = "00-01-01"
    /\ lines = <<>>
    /\ li = 1
    /\ current_timestamp = NoneStr
    /\ current_speaker = NoneStr
    /\ buffer = <<>>
    /\ current_prefix = NoneStr
    /\ final_lines = <<>>
    /\ utterances = <<>>
    /\ run = 0
    /\ spc = "idle"
    /\ SanitizerIdle
    /\ ParserIdle

Init ==
    /\ by_year \in BOOLEAN
    /\ files \in DistinctSeqs(FileNames, MaxFiles)
    /\ pc = "glob"
    /\ results = <<>>
    /\ parsed_results = <<>>
    /\ idx = 1
    /\ current_word_count = 0
    /\ current_byte_count = 0
    /\ current_chunk_content = <<>>
    /\ chunk_start_ep = None
    /\ chunk_end_ep = None
    /\ current_year = None
    /\ written = <<>>
    /\ skipped = <<>>
    /\ stdout = <<>>
    /\ SegmenterIdle
    /\ FetcherIdle

\* if not files: return
NoFiles ==
    /\ pc = "glob"
    /\ files = <<>>
    /\ stdout' = Append(stdout, [line |-> "No files found for prefix"])
    /\ pc' = "done"
    /\ UNCHANGED <<by_year, files, results, parsed_results, idx,
                   current_word_count, current_byte_count,
                   current_chunk_content, chunk_start_ep, chunk_end_ep,
                   current_year, written, skipped, notPacker>>

\* files.sort(key=get_ep_num), then one task per file is handed to the pool
SortFiles ==
    /\ pc = "glob"
    /\ files /= <<>>
    /\ files' = SortByEpNum(files)
    /\ results' = [i \in 1..Len(files) |-> Pending]
    /\ stdout' = Append(stdout, [line |-> "Processing files", count |-> Len(files)])
    /\ pc' = "parse"
    /\ UNCHANGED <<by_year, parsed_results, idx, current_word_count,
                   current_byte_count, current_chunk_content, chunk_start_ep,
                   chunk_end_ep, current_year, written, skipped, notPacker>>

\* What parse_transcript_file(filepath) can do: return (title, date_str,
\* year, content), of which the packer reads the year and the sizes, or
\* raise (open() fails on an unreadable file)
ParseOutcomes ==
    { [raises |-> FALSE, year |-> y, size |-> sz] : y \in Years, sz \in Sizes }
      \cup { [raises |-> TRUE, exc |-> "OSError"] }

\* _parse_single_file without its try/except: the exception leaves the task
ParseSingleFileUncaught(filepath, outcome) ==
    IF outcome.raises
    THEN [exception |-> outcome.exc, filepath |-> filepath]
    ELSE [ep_num |-> get_ep_num(filepath), year |-> outcome.year,
          ep_words |-> outcome.size.words, ep_bytes |-> outcome.size.bytes,
          text_words |-> outcome.size.text,
          filepath |-> filepath]

\* _parse_single_file: the result dict, or the error dict built in the
\* except clause
parse_single_file(filepath, outcome) ==
    IF outcome.raises
    THEN [error |-> outcome.exc, filepath |-> filepath]
    ELSE [ep_num |-> get_ep_num(filepath), year |-> outcome.year,
          ep_words |-> outcome.size.words, ep_bytes |-> outcome.size.bytes,
          text_words |-> outcome.size.text,
          filepath |-> filepath]

\* Results kept in the order in which the tasks finish
CompletionSlot(i) == Least({ j \in 1..Len(results) : results[j] = Pending })

\* executor.map yields the results in the order of its input: the result of
\* the i-th file is the i-th result
ResultSlot(i) == i

\* One task of the pool finishes; the workers finish in any order and each
\* result lands in the slot of its file
ParseSingleFile(i) ==
    /\ pc = "parse"
    /\ i \in 1..Len(files)
    /\ results[i] = Pending
    /\ \E outcome \in ParseOutcomes :
          results' = [results EXCEPT
                         ![ResultSlot(i)] = parse_single_file(files[i], outcome)]
    /\ UNCHANGED <<by_year, files, pc, parsed_results, idx, current_word_count,
                   current_byte_count, current_chunk_content, chunk_start_ep,
                   chunk_end_ep, current_year, written, skipped, stdout,
                   notPacker>>

\* 'error' in res
IsError(res) == "error" \in DOMAIN res

\* A task that ended with an exception: executor.map raises it again when
\* its result is read
Propagated(res) == "exception" \in DOMAIN res

\* print(f"Error processing file {res['filepath']}: {res['error']}. Skipping.")
\* for each of the error results
ErrorLines(errors) ==
    [k \in 1..Len(errors) |->
        [line |-> "Error processing file", filepath |-> errors[k].filepath,
         error |-> errors[k].error]]

\* A collection that goes on as soon as one task is done
SomeTaskDone == \E i \in 1..Len(files) : results[i] /= Pending

\* list(executor.map(...)) has the result of every task
AllTasksDone == \A i \in 1..Len(files) : results[i] /= Pending

\* results = list(executor.map(...)) returns once every task is done (or
\* raises what a task raised); the loop over results keeps those without an
\* 'error' key and reports the others
CollectResults ==
    /\ pc = "parse"
    /\ AllTasksDone
    /\ IF \E i \in 1..Len(files) : Propagated(results[i])
       THEN /\ pc' = "raised"
            /\ UNCHANGED <<parsed_results, skipped, stdout>>
       ELSE /\ parsed_results' = SelectSeq(results, LAMBDA r : ~IsError(r))
            /\ skipped' = SelectSeq(results, IsError)
            /\ stdout' = stdout \o ErrorLines(SelectSeq(results, IsError))
            /\ pc' = "pack"
    /\ UNCHANGED <<by_year, files, results, idx, current_word_count,
                   current_byte_count, current_chunk_content, chunk_start_ep,
                   chunk_end_ep, current_year, written, notPacker>>

\* f"{prefix}_Transcripts_{current_year}_{chunk_start_ep}_{chunk_end_ep}.md"
YearSplitName(year, start_ep, end_ep) ==
    prefix \o "_Transcripts_" \o ToString(year) \o "_" \o ToString(start_ep)
           \o "_" \o ToString(end_ep) \o ".md"

\* f"{prefix}_Transcripts_{chunk_start_ep}-{chunk_end_ep}.md"
DefaultName(start_ep, end_ep) ==
    prefix \o "_Transcripts_" \o ToString(start_ep) \o "-" \o ToString(end_ep)
           \o ".md"

\* Python's truth value of current_year: None and 0 are false
Truthy(n) == n /= None /\ n /= 0

\* The name write_current_chunk gives the chunk it writes
output_name ==
    IF by_year /\ Truthy(current_year)
    THEN YearSplitName(current_year, chunk_start_ep, chunk_end_ep)
    ELSE DefaultName(chunk_start_ep, chunk_end_ep)

\* The file write_current_chunk writes from the state it is called in
WrittenChunk ==
    [name |-> output_name, content |-> current_chunk_content,
     words |-> current_word_count, bytes |-> current_byte_count]

\* print(f"Written {name} (Words: {current_word_count}, Bytes: {current_byte_count})")
WrittenLine ==
    [line |-> "Written", name |-> output_name, words |-> current_word_count,
     bytes |-> current_byte_count]

\* write_current_chunk without its "if not current_chunk_content: return"
WritesAlways == TRUE

\* write_current_chunk() returns at once when current_chunk_content is empty
WritesChunk == current_chunk_content /= <<>>

\* The split decision without the byte limit
SplitOnWordsOnly(res) ==
    IF current_word_count + res.ep_words > MAX_WORDS
    THEN TRUE
    ELSE by_year /\ current_year /= None /\ res.year /= current_year

\* The split decision with "current_year" tested for truth instead of
\* "is not None"
SplitOnTruthyYear(res) ==
    IF \/ current_word_count + res.ep_words > MAX_WORDS
       \/ current_byte_count + res.ep_bytes > MAX_BYTES
    THEN TRUE
    ELSE by_year /\ Truthy(current_year) /\ res.year /= current_year

\* The split decision without the year test
SplitOnLimitsOnly(res) ==
    \/ current_word_count + res.ep_words > MAX_WORDS
    \/ current_byte_count + res.ep_bytes > MAX_BYTES

\* The split decision of one loop iteration for the episode res
split_needed(res) ==
    IF \/ current_word_count + res.ep_words > MAX_WORDS
       \/ current_byte_count + res.ep_bytes > MAX_BYTES
    THEN TRUE
    ELSE by_year /\ current_year /= None /\ res.year /= current_year

\* chunk_start_ep when write_current_chunk() does not reset it
KeepsStartEp(closes, res) ==
    IF chunk_start_ep = None THEN res.ep_num ELSE chunk_start_ep

\* chunk_start_ep after one loop iteration: write_current_chunk() sets it to
\* None, and "if chunk_start_ep is None" then takes the episode's number
NextStartEp(closes, res) ==
    LET start_ep == IF closes THEN None ELSE chunk_start_ep
    IN  IF start_ep = None THEN res.ep_num ELSE start_ep

\* One iteration of "for res in parsed_results": write_current_chunk() when
\* a split is needed (it resets the content, both counters and
\* chunk_start_ep), then the episode joins the open chunk
PackEpisode ==
    /\ pc = "pack"
    /\ idx <= Len(parsed_results)
    /\ LET res == parsed_results[idx]
           closes == split_needed(res) /\ WritesChunk
           content == IF closes THEN <<>> ELSE current_chunk_content
           words == IF closes THEN 0 ELSE current_word_count
           bytes == IF closes THEN 0 ELSE current_byte_count
       IN  /\ written' = IF closes THEN Append(written, WrittenChunk) ELSE written
           /\ stdout' = IF closes THEN Append(stdout, WrittenLine) ELSE stdout
           /\ chunk_start_ep' = NextStartEp(closes, res)
           /\ current_chunk_content' = Append(content, res)
           /\ current_word_count' = words + res.ep_words
           /\ current_byte_count' = bytes + res.ep_bytes
           /\ chunk_end_ep' = res.ep_num
           /\ current_year' = res.year
    /\ idx' = idx + 1
    /\ UNCHANGED <<by_year, files, pc, results, parsed_results, skipped, notPacker>>

\* The return without the write_current_chunk() after the loop
ReturnWithoutFinalWrite ==
    /\ pc = "pack"
    /\ idx > Len(parsed_results)
    /\ pc' = "done"
    /\ UNCHANGED <<by_year, files, results, parsed_results, idx,
                   current_word_count, current_byte_count,
                   current_chunk_content, chunk_start_ep, chunk_end_ep,
                   current_year, written, skipped, stdout, notPacker>>

\* The write_current_chunk() after the loop, and the return
FinalWrite ==
    /\ pc = "pack"
    /\ idx > Len(parsed_results)
    /\ IF WritesChunk
       THEN /\ written' = Append(written, WrittenChunk)
            /\ stdout' = Append(stdout, WrittenLine)
            /\ current_chunk_content' = <<>>
            /\ current_word_count' = 0
            /\ current_byte_count' = 0
            /\ chunk_start_ep' = None
       ELSE UNCHANGED <<written, stdout, current_chunk_content,
                        current_word_count, current_byte_count, chunk_start_ep>>
    /\ pc' = "done"
    /\ UNCHANGED <<by_year, files, results, parsed_results, idx, chunk_end_ep,
                   current_year, skipped, notPacker>>

Next ==
    \/ NoFiles
    \/ SortFiles
    \/ \E i \in 1..MaxFiles : ParseSingleFile(i)
    \/ CollectResults
    \/ PackEpisode
    \/ FinalWrite

Spec == Init /\ [][Next]_vars

-----------------------------------------------------------------------------
(* fetch_transcripts.py: get_list_page and download_transcript_detail *)

\* (\d+)
FirstDigitsRe == Group(1, Plus(Chr(Digit)))

\* ep_num: the first run of digits of the title, "unknown" if it has none
TitleEpNum(item_title) ==
    Only({ IF m.ok THEN MatchGroup(m, item_title, 1) ELSE "unknown" :
           m \in {RegexSearch(FirstDigitsRe, item_title, 1)} })

\* f"transcripts_page_{page_num}.html"
ListPageFile(p) == "transcripts_page_" \o ToString(p) \o ".html"

\* f"{prefix}_{ep_num}.html"
DetailFile(item_prefix, item_title) ==
    item_prefix \o "_" \o TitleEpNum(item_title) \o ".html"

\* The files of DATA_DIR the calls can read or write
FetchFiles ==
    { ListPageFile(p) : p \in Pages }
        \cup { DetailFile(x, t) : x \in ItemPrefixes, t \in ItemTitles }

\* os.path.exists(f)
Exists(f) == fs[f] /= Absent

\* What a failed attempt can leave of the file: nothing touched (urlopen,
\* read or open raised), or a file truncated by open(filename, 'w') (write
\* raised)
AfterFailedAttempt == { fs, [fs EXCEPT ![filename] = ""] }

\* A call of either function begins
BeginCall(op, f) ==
    /\ fpc \in {"idle", "returned"}
    /\ calls < MaxCalls
    /\ calls' = calls + 1
    /\ fop' = op
    /\ filename' = f
    /\ fpc' = "check"
    /\ ret' = Unset
    /\ attempts' = <<>>
    /\ fs_at_call' = fs
    /\ UNCHANGED <<fs, retries, notFetcher>>

\* get_list_page(page_num) is called
CallGetListPage ==
    \E p \in Pages :
        /\ BeginCall("get_list_page", ListPageFile(p))
        /\ page_num' = p

\* A serving rule that uses the cached file of any page
CachedAnyPage == Exists(filename)

\* "if page_num > 5 and os.path.exists(filename)"
ServesCached == page_num > 5 /\ Exists(filename)

\* The cached file is read and returned
ServeCached ==
    /\ fop = "get_list_page"
    /\ fpc = "check"
    /\ ServesCached
    /\ ret' = fs[filename]
    /\ fpc' = "returned"
    /\ UNCHANGED <<fs, fop, page_num, filename, retries, attempts, fs_at_call,
                   calls, notFetcher>>

\* retries = 3, before the loop
BeginListDownload ==
    /\ fop = "get_list_page"
    /\ fpc = "check"
    /\ ~ServesCached
    /\ retries' = 3
    /\ fpc' = "loop"
    /\ UNCHANGED <<fs, fop, page_num, filename, ret, attempts, fs_at_call,
                   calls, notFetcher>>

\* A loop that goes on after a successful attempt
GoesOnAfterSuccess == "loop"

\* Where a successful attempt leaves the function: "return content"
AfterSuccess == "returned"

\* The try block runs to its return: the page is downloaded, written to
\* the file and returned
ListAttemptSucceeds ==
    /\ fop = "get_list_page"
    /\ fpc = "loop"
    /\ retries > 0
    /\ \E content \in ServerContents :
          /\ fs' = [fs EXCEPT ![filename] = content]
          /\ ret' = content
    /\ attempts' = Append(attempts, "ok")
    /\ fpc' = AfterSuccess
    /\ UNCHANGED <<fop, page_num, filename, retries, fs_at_call, calls,
                   notFetcher>>

\* The try block raises: "retries -= 1"
ListAttemptFails ==
    /\ fop = "get_list_page"
    /\ fpc = "loop"
    /\ retries > 0
    /\ fs' \in AfterFailedAttempt
    /\ attempts' = Append(attempts, "failed")
    /\ retries' = retries - 1
    /\ UNCHANGED <<fop, fpc, page_num, filename, ret, fs_at_call, calls,
                   notFetcher>>

\* "return None" after the loop
ReturnNone ==
    /\ fop = "get_list_page"
    /\ fpc = "loop"
    /\ retries = 0
    /\ ret' = NoneStr
    /\ fpc' = "returned"
    /\ UNCHANGED <<fs, fop, page_num, filename, retries, attempts, fs_at_call,
                   calls, notFetcher>>

\* download_transcript_detail(url_path, title, prefix) is called
CallDownloadDetail ==
    \E x \in ItemPrefixes, t \in ItemTitles :
        /\ BeginCall("download_transcript_detail", DetailFile(x, t))
        /\ UNCHANGED page_num

\* A test that never finds the file
NeverSkips == FALSE

\* "if os.path.exists(filename)"
SkipsExisting == Exists(filename)

\* "if os.path.exists(filename): return"
SkipExisting ==
    /\ fop = "download_transcript_detail"
    /\ fpc = "check"
    /\ SkipsExisting
    /\ ret' = NoneStr
    /\ fpc' = "returned"
    /\ UNCHANGED <<fs, fop, page_num, filename, retries, attempts, fs_at_call,
                   calls, notFetcher>>

\* retries = 3, before the loop
BeginDetailDownload ==
    /\ fop = "download_transcript_detail"
    /\ fpc = "check"
    /\ ~SkipsExisting
    /\ retries' = 3
    /\ fpc' = "loop"
    /\ UNCHANGED <<fs, fop, page_num, filename, ret, attempts, fs_at_call,
                   calls, notFetcher>>

\* The try block runs to its return: the transcript is downloaded and
\* written to the file
DetailAttemptSucceeds ==
    /\ fop = "download_transcript_detail"
    /\ fpc = "loop"
    /\ retries > 0
    /\ \E content \in ServerContents : fs' = [fs EXCEPT ![filename] = content]
    /\ ret' = NoneStr
    /\ attempts' = Append(attempts, "ok")
    /\ fpc' = "returned"
    /\ UNCHANGED <<fop, page_num, filename, retries, fs_at_call, calls,
                   notFetcher>>

\* The try block raises: "retries -= 1"
DetailAttemptFails ==
    /\ fop = "download_transcript_detail"
    /\ fpc = "loop"
    /\ retries > 0
    /\ fs' \in AfterFailedAttempt
    /\ attempts' = Append(attempts, "failed")
    /\ retries' = retries - 1
    /\ UNCHANGED <<fop, fpc, page_num, filename, ret, fs_at_call, calls,
                   notFetcher>>

\* The loop ends with no retry left: the function returns
DetailGiveUp ==
    /\ fop = "download_transcript_detail"
    /\ fpc = "loop"
    /\ retries = 0
    /\ ret' = NoneStr
    /\ fpc' = "returned"
    /\ UNCHANGED <<fs, fop, page_num, filename, retries, attempts, fs_at_call,
                   calls, notFetcher>>

\* A data directory in which every file is stored or not
FetchInit ==
    /\ GrcIdle
    /\ PackerIdle
    /\ SanitizerIdle
    /\ ParserIdle
    /\ SegmenterIdle
    /\ fs \in [FetchFiles -> {Absent, StoredContent}]
    /\ fop = "none"
    /\ fpc = "idle"
    /\ page_num = 0
    /\ filename = NoneStr
    /\ retries = 0
    /\ ret = Unset
    /\ attempts = <<>>
    /\ fs_at_call = fs
    /\ calls = 0

FetchNext ==
    \/ CallGetListPage
    \/ ServeCached
    \/ BeginListDownload
    \/ ListAttemptSucceeds
    \/ ListAttemptFails
    \/ ReturnNone
    \/ CallDownloadDetail
    \/ SkipExisting
    \/ BeginDetailDownload
    \/ DetailAttemptSucceeds
    \/ DetailAttemptFails
    \/ DetailGiveUp

FetchSpec == FetchInit /\ [][FetchNext]_vars

-----------------------------------------------------------------------------
(* fetch_grc_sn_transcripts(start_ep, end_ep): the loop over the episodes of
   the range, each skipped, downloaded or failed *)

\* The ranges asked for: several episodes, one episode, and two ranges whose
\* end lies before their start ("--grc-sn-range 3-1" and "2-1")
Ranges == { <<1, 3>>, <<2, 2>>, <<3, 1>>, <<2, 1>> }

\* The episodes of all ranges
RangeEpisodes == 1..3

\* What GRC.com can answer: a page with a body and a recording date, a text
\* with an episode line and no body element, a page with neither date
GrcPages == { "<body>recorded Tuesday, March 24, 2015 <div>Hi</div></body>",
              "Episode #5 of May 3rd, 2006",
              "<BODY bgcolor=x> none </BODY>" }

\* os.path.join(DATA_DIR, f"SN_{ep}.html")
GrcFile(e) == "SN_" \o ToString(e) \o ".html"

\* \w
WordChar == Upper \cup Lower \cup Digit \cup {"_"}

\* (?:January|February|...|December), re.IGNORECASE
valid_months == Alt([k \in 1..12 |-> LitI(MonthNames[k])])

\* recorded\s+\w+day,?\s+((?:January|...)\s+\d+,?\s+\d{4}), re.IGNORECASE
grc_date_re ==
    Cat(<<LitI("recorded"), Gap, Plus(Chr(WordChar)), LitI("day"),
          Opt(Lit(",")), Gap,
          Group(1, Cat(<<valid_months, Gap, Plus(Chr(Digit)), Opt(Lit(",")),
                         Gap, YearRe>>))>>)

\* Episode\s*#?\d+.*?({valid_months}\s+\d{1,2},?\s+\d{4}),
\* re.IGNORECASE | re.DOTALL
grc_date_fallback_re ==
    Cat(<<LitI("episode"), Star(Chr(Space)), Opt(Lit("#")), Plus(Chr(Digit)),
          LazyStar(AnyChar),
          Group(1, Cat(<<valid_months, Gap, Chr(Digit), Opt(Chr(Digit)),
                         Opt(Lit(",")), Gap, YearRe>>))>>)

\* <body[^>]*>(.*?)</body>, re.DOTALL | re.IGNORECASE
grc_body_re ==
    Cat(<<LitI("<body"), Star(NotGt), Lit(">"), Group(1, LazyStar(AnyChar)),
          LitI("</body>")>>)

\* date_str: group 1 of the first of the two date patterns that is found,
\* stripped, else "Unknown Date"
GrcDateStr(raw_html) ==
    Only({ IF m.ok THEN strip(MatchGroup(m, raw_html, 1))
           ELSE Only({ IF f.ok THEN strip(MatchGroup(f, raw_html, 1))
                       ELSE "Unknown Date" :
                       f \in {RegexSearch(grc_date_fallback_re, raw_html, 1)} }) :
           m \in {RegexSearch(grc_date_re, raw_html, 1)} })

\* body_content: what stands between <body> and </body>, stripped, or the
\* whole page, without its </div> tags
GrcBodyContent(raw_html) ==
    Only({ StrReplace(IF m.ok THEN strip(MatchGroup(m, raw_html, 1))
                      ELSE raw_html, "</div>", "") :
           m \in {RegexSearch(grc_body_re, raw_html, 1)} })

wrapped_html(e, raw_html) ==
    "<h1 class=\"post-title\">Security Now " \o ToString(e)
        \o " Transcript</h1>\n"
        \o "<p class=\"byline\">" \o GrcDateStr(raw_html) \o "</p>\n"
        \o "<div class=\"body textual\">" \o GrcBodyContent(raw_html)
        \o "</div>\n"

\* stats with one more of kind
Counted(kind) == [stats EXCEPT ![kind] = @ + 1]

\* The call: the counters start at zero and the loop at start_ep
GrcBegin ==
    /\ gpc = "called"
    /\ stats' = [downloaded |-> 0, skipped |-> 0, failed |-> 0]
    /\ ep' = grc_start
    /\ gpc' = "loop"
    /\ UNCHANGED <<grc_fs, grc_start, grc_end, grc_retries, grc_attempts,
                   grc_ret, notGrc>>

\* "if os.path.exists(filename): stats['skipped'] += 1; continue"
GrcSkipExisting ==
    /\ gpc = "loop"
    /\ ep <= grc_end
    /\ grc_fs[GrcFile(ep)] /= Absent
    /\ stats' = Counted("skipped")
    /\ ep' = ep + 1
    /\ UNCHANGED <<grc_fs, grc_start, grc_end, grc_retries, grc_attempts,
                   grc_ret, gpc, notGrc>>

\* The file is missing: "retries = 3" and the while loop is entered
GrcBeginDownload ==
    /\ gpc = "loop"
    /\ ep <= grc_end
    /\ grc_fs[GrcFile(ep)] = Absent
    /\ grc_retries' = 3
    /\ grc_attempts' = <<>>
    /\ gpc' = "try"
    /\ UNCHANGED <<grc_fs, grc_start, grc_end, ep, stats, grc_ret, notGrc>>

\* The try block runs to its break: the page is wrapped and written, and the
\* episode is counted as downloaded
GrcAttemptSucceeds ==
    /\ gpc = "try"
    /\ grc_retries > 0
    /\ \E raw_html \in GrcPages :
          grc_fs' = [grc_fs EXCEPT ![GrcFile(ep)] = wrapped_html(ep, raw_html)]
    /\ stats' = Counted("downloaded")
    /\ grc_attempts' = Append(grc_attempts, "ok")
    /\ gpc' = "after"
    /\ UNCHANGED <<grc_start, grc_end, ep, grc_retries, grc_ret, notGrc>>

\* A 404 handled as any other HTTP error: a retry
GrcNotFoundRetried ==
    /\ gpc = "try"
    /\ grc_retries > 0
    /\ grc_attempts' = Append(grc_attempts, "404")
    /\ grc_retries' = grc_retries - 1
    /\ UNCHANGED <<grc_fs, grc_start, grc_end, ep, stats, grc_ret, gpc, notGrc>>

\* urlopen raises HTTPError with code 404: the episode is counted as failed
\* and the while loop is left
GrcNotFound ==
    /\ gpc = "try"
    /\ grc_retries > 0
    /\ stats' = Counted("failed")
    /\ grc_attempts' = Append(grc_attempts, "404")
    /\ gpc' = "after"
    /\ UNCHANGED <<grc_fs, grc_start, grc_end, ep, grc_retries, grc_ret, notGrc>>

\* The try block raises anything else (another HTTP error, a URLError, an
\* OSError of open or write, which can leave the file truncated):
\* "retries -= 1"
GrcAttemptFails ==
    /\ gpc = "try"
    /\ grc_retries > 0
    /\ grc_fs' \in {grc_fs, [grc_fs EXCEPT ![GrcFile(ep)] = ""]}
    /\ grc_attempts' = Append(grc_attempts, "error")
    /\ grc_retries' = grc_retries - 1
    /\ UNCHANGED <<grc_start, grc_end, ep, stats, grc_ret, gpc, notGrc>>

\* The while loop is over, by its break or with no retry left:
\* "if retries == 0: stats['failed'] += 1", and the next episode
GrcNextEpisode ==
    /\ gpc = "after" \/ (gpc = "try" /\ grc_retries = 0)
    /\ stats' = IF grc_retries = 0 THEN Counted("failed") ELSE stats
    /\ ep' = ep + 1
    /\ gpc' = "loop"
    /\ UNCHANGED <<grc_fs, grc_start, grc_end, grc_retries, grc_attempts,
                   grc_ret, notGrc>>

\* The range is exhausted: "return stats"
GrcReturn ==
    /\ gpc = "loop"
    /\ ep > grc_end
    /\ grc_ret' = stats
    /\ gpc' = "returned"
    /\ UNCHANGED <<grc_fs, grc_start, grc_end, ep, grc_retries, stats,
                   grc_attempts, notGrc>>

\* A call with a range, over a data directory in which every transcript of
\* Security Now is stored or not
GrcInit ==
    /\ PackerIdle
    /\ SanitizerIdle
    /\ ParserIdle
    /\ SegmenterIdle
    /\ fs = <<>>
    /\ fop = "none"
    /\ fpc = "idle"
    /\ page_num = 0
    /\ filename = NoneStr
    /\ retries = 0
    /\ ret = Unset
    /\ attempts = <<>>
    /\ fs_at_call = <<>>
    /\ calls = 0
    /\ grc_fs \in [{ GrcFile(e) : e \in RangeEpisodes } -> {Absent, StoredContent}]
    /\ \E r \in Ranges : grc_start = r[1] /\ grc_end = r[2]
    /\ ep = 0
    /\ grc_retries = 0
    /\ stats = <<>>
    /\ grc_attempts = <<>>
    /\ grc_ret = Unset
    /\ gpc = "called"

GrcNext ==
    \/ GrcBegin
    \/ GrcSkipExisting
    \/ GrcBeginDownload
    \/ GrcAttemptSucceeds
    \/ GrcNotFound
    \/ GrcAttemptFails
    \/ GrcNextEpisode
    \/ GrcReturn

GrcSpec == GrcInit /\ [][GrcNext]_vars

-----------------------------------------------------------------------------
(* Properties of the chunk packer *)

\* The episodes of all written chunks, in the order written
RECURSIVE Flatten(_)
Flatten(chunks) ==
    IF Len(chunks) = 0 THEN <<>>
    ELSE Flatten(SubSeq(chunks, 1, Len(chunks) - 1)) \o chunks[Len(chunks)].content

Oversized(res) == res.ep_words > MAX_WORDS \/ res.ep_bytes > MAX_BYTES

\* C1: a chunk written with a word total above MAX_WORDS or a byte total
\* above MAX_BYTES holds exactly one episode, with by_year on and off.
C1_ChunkBound ==
    \A k \in 1..Len(written) :
        (written[k].words > MAX_WORDS \/ written[k].bytes > MAX_BYTES)
            => Len(written[k].content) = 1

\* A run wrote an over-limit chunk of one episode and a chunk of several
\* episodes
C1_Witness ==
    /\ pc = "done"
    /\ \E k \in 1..Len(written) :
          written[k].bytes > MAX_BYTES /\ Len(written[k].content) = 1
    /\ \E k \in 1..Len(written) : Len(written[k].content) > 1

\* C2: with by_year, all episodes of one written chunk have the same year,
\* the year 0 and years that go back and forth included.
C2_YearPurity ==
    by_year =>
        \A k \in 1..Len(written) :
            \A a, b \in 1..Len(written[k].content) :
                written[k].content[a].year = written[k].content[b].year

\* A by_year run whose years go 0, 2024, 0
C2_Witness ==
    /\ by_year
    /\ pc = "done"
    /\ Len(parsed_results) = 3
    /\ parsed_results[1].year = 0
    /\ parsed_results[2].year = 2024
    /\ parsed_results[3].year = 0
    /\ Len(written) = 3

\* C3: every parsed episode is in exactly one chunk, once, whole and in
\* order: while packing, the written chunks followed by the open chunk are
\* the episodes consumed so far; on return the open chunk is empty and the
\* written chunks hold every parsed episode.
C3_EveryEpisodeOnce ==
    /\ pc \in {"pack", "done"} =>
          Flatten(written) \o current_chunk_content
              = SubSeq(parsed_results, 1, idx - 1)
    /\ pc = "done" =>
          /\ current_chunk_content = <<>>
          /\ Flatten(written) = parsed_results

\* A finished run of three parsed episodes in two chunks
C3_Witness ==
    /\ pc = "done"
    /\ Len(parsed_results) = 3
    /\ Len(written) = 2

\* The episode numbers of the written episodes, chunk after chunk
WrittenEpNums ==
    LET flat == Flatten(written)
    IN  [k \in 1..Len(flat) |-> flat[k].ep_num]

StrictlyAscending(nums) == \A k \in 1..(Len(nums) - 1) : nums[k] < nums[k + 1]

NonDescending(nums) == \A k \in 1..(Len(nums) - 1) : nums[k] <= nums[k + 1]

\* C6 as claimed: episode numbers ascend strictly inside every chunk and
\* from the last episode of a chunk to the first of the next.
C6_StrictlyAscending == StrictlyAscending(WrittenEpNums)

\* No two file names carry the same episode number
DistinctEpNums ==
    LET nums == [a \in 1..Len(files) |-> get_ep_num(files[a])]
    IN  \A a, b \in 1..Len(files) : a /= b => nums[a] /= nums[b]

\* C6 amended: episode numbers never descend inside a chunk or from one
\* chunk to the next, and ascend strictly when no two file names carry the
\* same episode number.
C6_Ascending ==
    LET nums == WrittenEpNums
    IN  /\ NonDescending(nums)
        /\ StrictlyAscending(nums) \/ ~DistinctEpNums

\* A finished run over IM_unknown.html, IM_5.html and IM_12.html that glob
\* did not return in order, with two episodes in one chunk
C6_Witness ==
    /\ pc = "done"
    /\ DistinctEpNums
    /\ Len(WrittenEpNums) = 3
    /\ \E k \in 1..Len(written) : Len(written[k].content) = 2
    /\ Len(written) = 2

\* The results of the documents that parsed, in file order
Successes == SelectSeq(results, LAMBDA r : ~IsError(r) /\ ~Propagated(r))

\* C7: a document whose parsing fails becomes an error result; the run does
\* not raise, the packer's input is exactly the results of the other
\* documents, and on return all of them are packed.
C7_FailureIsolated ==
    /\ pc /= "raised"
    /\ pc \in {"pack", "done"} /\ files /= <<>> =>
          /\ parsed_results = Successes
          /\ \A k \in 1..Len(parsed_results) : ~IsError(parsed_results[k])
          /\ Len(parsed_results) + Len(skipped) = Len(files)
    /\ pc = "done" => Flatten(written) = Successes

\* A finished run with a failed document between two packed ones
C7_Witness ==
    /\ pc = "done"
    /\ Len(results) = 3
    /\ IsError(results[2])
    /\ Len(Flatten(written)) = 2

\* C8: an episode over a limit on its own is alone in its chunk, no written
\* chunk is empty, and the loop makes exactly one iteration per episode.
C8_OversizedAlone ==
    /\ \A k \in 1..Len(written) :
          /\ written[k].content /= <<>>
          /\ (\E a \in 1..Len(written[k].content) : Oversized(written[k].content[a]))
                => Len(written[k].content) = 1
    /\ pc = "pack" => idx \in 1..(Len(parsed_results) + 1)
    /\ pc = "done" /\ files /= <<>> => idx = Len(parsed_results) + 1
    /\ Len(written) <= Len(parsed_results)

\* A finished run whose first episode is oversized and is followed by others
C8_Witness ==
    /\ pc = "done"
    /\ Len(parsed_results) = 3
    /\ Oversized(parsed_results[1])
    /\ written[1].content = <<parsed_results[1]>>

\* C9: the name of every written chunk carries the episode number of its
\* first episode as <start_ep> and of its last episode as <end_ep>.
C9_NameCarriesRange ==
    \A k \in 1..Len(written) :
        LET c == written[k].content
            first == c[1].ep_num
            last == c[Len(c)].ep_num
        IN  written[k].name \in
                { DefaultName(first, last) }
                  \cup { YearSplitName(y, first, last) : y \in Years }

\* A second chunk of two episodes with different numbers was written
C9_Witness ==
    /\ Len(written) = 2
    /\ Len(written[2].content) = 2
    /\ written[2].content[1].ep_num /= written[2].content[2].ep_num
    /\ written[1].content[1].ep_num /= written[2].content[1].ep_num

\* C10: with by_year, every written chunk has the year-split name, with the
\* year its episodes share, whatever that year is.
C10_YearSplitName ==
    by_year =>
        \A k \in 1..Len(written) :
            LET c == written[k].content
            IN  written[k].name
                    = YearSplitName(c[1].year, c[1].ep_num, c[Len(c)].ep_num)

\* C13: when a run of process_prefix has ended, it has reported a summary
\* whose parsed count is the number of documents that parsed and whose
\* skipped count is the number of documents that failed.
C13_SummaryReported ==
    (pc = "done" /\ files /= <<>>) =>
        \E k \in 1..Len(stdout) :
            /\ stdout[k].line = "Summary"
            /\ stdout[k].parsed = Len(parsed_results)
            /\ stdout[k].skipped = Len(skipped)


-----------------------------------------------------------------------------
(* html_to_markdown: properties *)

\* The characters of s[lo..hi] that are not whitespace, in order
RECURSIVE NonWhitespaceOfRange(_, _, _)
NonWhitespaceOfRange(s, lo, hi) ==
    IF lo > hi THEN ""
    ELSE IF lo = hi THEN (IF CharAt(s, lo) \in Space THEN "" ELSE CharAt(s, lo))
    ELSE LET mid == (lo + hi) \div 2
         IN  NonWhitespaceOfRange(s, lo, mid) \o NonWhitespaceOfRange(s, mid + 1, hi)

NonWhitespace(s) == NonWhitespaceOfRange(s, 1, Len(s))

\* The texts of the utterances emitted so far, in order
UtteranceTexts == [k \in 1..Len(utterances) |-> utterances[k].text]

\* C4: when html_to_markdown runs on its own output, no line of that
\* output is matched by any of the five metadata patterns, so the pass
\* finds no new speaker and no new timestamp in it.
C4_NoRematch ==
    run = 2 =>
        /\ \A k \in 1..Len(lines) : FirstMatch(strip(lines[k]), 1).i = 0
        /\ current_speaker = NoneStr
        /\ current_timestamp = NoneStr

\* C5: when the pass is over, the non-whitespace characters of the
\* utterance texts it emitted (headers left out) are exactly the
\* non-whitespace characters of its input blocks.
C5_NoTextLoss ==
    spc = "done" =>
        NonWhitespace(Join(UtteranceTexts, "")) = NonWhitespace(Join(lines, ""))

-----------------------------------------------------------------------------
(* html_to_markdown: properties of the whole function *)

\* What html_to_markdown returns
ReturnValue == Join(final_lines, "\n\n")

\* Whether sub occurs in s
Contains(s, sub) ==
    \E i \in 1..(Len(s) - Len(sub) + 1) : SubSeq(s, i, i + Len(sub) - 1) = sub

\* The sanitizer has handed its blocks over (or html_content was empty)
Sanitized == san = "done"

\* Whether an href begins with one of the three allowed beginnings
BeginsAllowed(h) ==
    \/ StartsWithStr(h, "http://")
    \/ StartsWithStr(h, "https://")
    \/ StartsWithStr(h, "/")

\* C11: an anchor becomes the markdown link [inner](href) when its href
\* begins with 'http://', 'https://' or '/', and for every other href only
\* its inner text remains.
C11_LinkAllowList ==
    \A a \in AnchorAttrs, h \in Hrefs, t \in AnchorTexts :
        (Sanitized /\ html_content = Anchor(a, h, t)) =>
            lines = << IF BeginsAllowed(h) THEN "[" \o t \o "](" \o h \o ")"
                       ELSE t >>

\* C11 witness: Scenario D has been sanitized to the bare text x
C11_Witness ==
    /\ Sanitized
    /\ html_content = Anchor("", "javascript:alert(1)", "x")
    /\ lines = <<"x">>

\* No block of the sanitized text matches a metadata pattern
NoBlockMatches == \A k \in 1..Len(lines) : FirstMatch(lines[k], 1).i = 0

\* The sanitized text: the blocks, joined by single spaces
SanitizedText == strip(CollapseWhitespace(Join(lines, " ")))

\* html_to_markdown has returned from a call on a body without timestamp
\* and speaker label
ReturnedPlain == Sanitized /\ spc = "done" /\ NoBlockMatches

ListDocs == { d \in PlainDocs : Contains(d, "<li>Item 1</li><li>Item 2</li>") }

\* html_to_markdown has returned from a call on a document with the list
ReturnedList == Sanitized /\ spc = "done" /\ html_content \in ListDocs

-----------------------------------------------------------------------------
(* parse_transcript_file: properties *)

\* h from the first occurrence of marker onward
FromMarker(h, marker) ==
    SubSeq(h, CHOOSE i \in 1..Len(h) :
                  /\ SubSeq(h, i, i + Len(marker) - 1) = marker
                  /\ \A j \in 1..(i - 1) : SubSeq(h, j, j + Len(marker) - 1) /= marker,
           Len(h))

\* C12: parse_transcript_file on a readable document is always at a step
\* it can go on from, or has returned; a document without the title marker gets 'Unknown Episode', one
\* without the byline marker gets 'Unknown Date', year 0 and the sentinel
\* ymd, and one without the body marker gets as body the text from
\* 'Transcript of Episode' onward, or the whole document when that is
\* missing too.
C12_BestEffortDefaults ==
    /\ dpc \in {"read", "body", "date", "returned"}
           \/ (dpc = "markdown" /\ spc \in {"sanitize", "segment", "done"})
    /\ dpc = "returned" =>
        /\ ~Contains(html, "<h1 class=\"post-title\">") =>
               parsed_title = "Unknown Episode"
        /\ ~Contains(html, "<p class=\"byline\">") =>
               /\ parsed_date_str = "Unknown Date"
               /\ parsed_year = 0
               /\ ymd_date = "00-01-01"
        /\ ~Contains(html, "<div class=\"body textual\">") =>
               raw_content = IF Contains(html, "Transcript of Episode")
                             THEN FromMarker(html, "Transcript of Episode")
                             ELSE html

\* C12 witness: the document '<bad_html>', with no marker at all, has been
\* parsed to the defaults and an empty text
C12_Witness ==
    /\ dpc = "returned"
    /\ html = "<bad_html>"
    /\ parsed_title = "Unknown Episode"
    /\ parsed_date_str = "Unknown Date"
    /\ parsed_year = 0
    /\ ymd_date = "00-01-01"
    /\ raw_content = html
    /\ md_content = ""

-----------------------------------------------------------------------------
(* fetch_transcripts.py: properties *)

\* get_list_page has returned
ListPageReturned == fop = "get_list_page" /\ fpc = "returned"

\* Every attempt of the call failed
AllFailed == \A k \in 1..Len(attempts) : attempts[k] = "failed"

\* C16: get_list_page makes at most 3 download attempts; it returns the page
\* content right after the first attempt that succeeds, so that a successful
\* attempt is the last one and every attempt before it failed; and it
\* returns None exactly when 3 attempts were made and all of them failed.
C16_ThreeAttempts ==
    fop = "get_list_page" =>
        /\ Len(attempts) <= 3
        /\ \A k \in 1..Len(attempts) :
              attempts[k] = "ok" =>
                  /\ k = Len(attempts)
                  /\ fpc = "returned"
                  /\ ret \in ServerContents
                  /\ ret = fs[filename]
        /\ fpc = "returned" =>
              (ret = NoneStr <=> (Len(attempts) = 3 /\ AllFailed))

\* The page is returned by the third attempt, after two failures
C16_Witness ==
    /\ ListPageReturned
    /\ attempts = <<"failed", "failed", "ok">>
    /\ ret \in ServerContents

\* C17: when the destination file <prefix>_<ep>.html exists at the call of
\* download_transcript_detail, the call makes no request and leaves every
\* file as it was.
C17_ExistingFileKept ==
    (fop = "download_transcript_detail" /\ fs_at_call[filename] /= Absent) =>
        /\ attempts = <<>>
        /\ fs = fs_at_call
        /\ fpc \in {"check", "returned"}

\* The call has returned for a file that an earlier call of the run wrote
C17_Witness ==
    /\ fop = "download_transcript_detail"
    /\ fpc = "returned"
    /\ fs_at_call[filename] \in ServerContents
    /\ filename = "TWIT_638.html"

\* C18: get_list_page returns the cached file's content without any request
\* if and only if page_num > 5 and the cached file exists at the call;
\* pages 1 to 5 attempt a download whether or not their file exists.
C18_CacheOnlyBeyondPage5 ==
    ListPageReturned =>
        /\ attempts = <<>> <=> (page_num > 5 /\ fs_at_call[filename] /= Absent)
        /\ attempts = <<>> => (ret = fs_at_call[filename] /\ fs = fs_at_call)
        /\ page_num <= 5 => attempts /= <<>>

\* Page 5 was downloaded although its cached file existed
C18_Witness ==
    /\ ListPageReturned
    /\ page_num = 5
    /\ fs_at_call[filename] = StoredContent
    /\ attempts = <<"ok">>
    /\ fs[filename] \in ServerContents

-----------------------------------------------------------------------------
(* html_to_markdown: properties of one block of the context-tracking pass *)

\* The block the loop is about to handle
CurrentLine == strip(lines[li])

\* The loop is about to handle a block
AtBlock == spc = "segment" /\ li <= Len(lines)

\* The header made of a speaker and timestamp, written out
HeaderOf(ts, sp) ==
    "EP:" \o ToString(ep_num) \o " Date:" \o date_ymd
        \o (IF ts \in {NoneStr, ""} THEN "" ELSE " TS:" \o ts)
        \o (IF sp \in {NoneStr, ""} THEN " -" ELSE " - " \o sp)

\* The buffered blocks as one utterance text
JoinedBuffer == strip(CollapseWhitespace(Join(buffer, " ")))

\* What a block that matches a pattern does
MatchedBlockStep ==
    AtBlock =>
    \A a \in {Attribution(CurrentLine, current_timestamp, current_speaker)} :
        a.found =>
            /\ IF buffer /= <<>>
               THEN /\ current_prefix = HeaderOf(current_timestamp, current_speaker)
                    /\ final_lines' =
                          Append(final_lines,
                                 HeaderOf(current_timestamp, current_speaker)
                                     \o " - " \o JoinedBuffer)
               ELSE final_lines' = final_lines
            /\ current_timestamp' = a.timestamp
            /\ current_speaker' = a.speaker
            /\ current_prefix' = HeaderOf(a.timestamp, a.speaker)
            /\ buffer' = IF a.content = "" THEN <<>> ELSE <<a.content>>

\* C19: a block that matches a pattern first finalizes the open buffer as one
\* utterance under the header of the speaker and timestamp in force before
\* the block, then adopts the new speaker and timestamp and starts a new
\* buffer that holds the matched content when it is non-empty and nothing
\* else: no text buffered before the match stays in the buffer to be emitted
\* under the new header.
C19_FlushBeforeAdopt == [][MatchedBlockStep]_vars

\* Jeff Jarvis's block has closed Leo Laporte's utterance under Leo
\* Laporte's header and opened a buffer of its own
C19_Witness ==
    /\ spc = "segment"
    /\ li = 3
    /\ lines = <<"1:05:32 - Leo Laporte: Welcome to the show.",
                 "Jeff Jarvis [0:15]: Hello">>
    /\ ep_num = 100
    /\ final_lines =
          <<"EP:100 Date:25-01-01 TS:1:05:32 - Leo Laporte - Welcome to the show.">>
    /\ current_speaker = "Jeff Jarvis"
    /\ current_timestamp = "0:15"
    /\ current_prefix = "EP:100 Date:25-01-01 TS:0:15 - Jeff Jarvis"
    /\ buffer = <<"Hello">>

\* What a block that matches no pattern does
UnmatchedBlockStep ==
    AtBlock =>
    \A a \in {Attribution(CurrentLine, current_timestamp, current_speaker)} :
        ~a.found =>
            /\ buffer' = Append(buffer, lines[li])
            /\ current_speaker' = current_speaker
            /\ current_timestamp' = current_timestamp
            /\ current_prefix' = IF current_prefix = NoneStr
                                 THEN HeaderOf(current_timestamp, current_speaker)
                                 ELSE current_prefix
            /\ final_lines' = final_lines

\* Scenario A: the two blocks, episode 100 of 25-01-01
ScenarioA ==
    /\ lines = <<"1:05:32 - Leo Laporte: Welcome to the show.",
                 "Great to be here.">>
    /\ ep_num = 100
    /\ date_ymd = "25-01-01"
    /\ run = 1

\* Scenario A returns a single utterance
ScenarioAResult ==
    (ScenarioA /\ spc = "done") =>
        final_lines = <<"EP:100 Date:25-01-01 TS:1:05:32 - Leo Laporte - "
                            \o "Welcome to the show. Great to be here.">>

\* C20: a block that matches none of the five patterns is a continuation: it
\* is appended unchanged to the open buffer, it leaves the current speaker,
\* the current timestamp and the header of the buffer unchanged (a header
\* not yet set becomes the header of the unchanged speaker and timestamp),
\* and it emits no utterance; Scenario A returns a single utterance.
C20_Continuation == [][UnmatchedBlockStep]_vars /\ []ScenarioAResult

\* Scenario A has returned its single utterance
C20_Witness ==
    /\ ScenarioA
    /\ spc = "done"
    /\ Len(final_lines) = 1
    /\ current_speaker = "Leo Laporte"
    /\ current_timestamp = "1:05:32"

-----------------------------------------------------------------------------
(* html_to_markdown: properties of the five patterns *)

\* The text after the timestamp of a timestamp-led block splits at a colon
\* into a candidate and content
SplitsAtColon(m, line) == MatchGroup(m, line, 3) /= NoneStr

\* The candidate is short and holds no sentence punctuation
IsSpeakerCandidate(candidate) ==
    Len(candidate) < 40 /\ ~HasSentencePunctuation(candidate)

\* What a timestamp-led block does, as the specification has it
TimestampLedStep ==
    AtBlock =>
    \A f \in {FirstMatch(CurrentLine, 1)} :
        f.i = 1 =>
            LET candidate == strip(MatchGroup(f.m, CurrentLine, 2))
                content == GroupOrEmpty(f.m, CurrentLine, 3)
            IN  /\ current_timestamp' = MatchGroup(f.m, CurrentLine, 1)
                /\ IF SplitsAtColon(f.m, CurrentLine) /\ IsSpeakerCandidate(candidate)
                   THEN /\ current_speaker' = candidate
                        /\ buffer' = IF strip(content) = "" THEN <<>>
                                     ELSE <<strip(content)>>
                   ELSE /\ current_speaker' = current_speaker
                        /\ buffer' = IF SplitsAtColon(f.m, CurrentLine)
                                     THEN <<candidate \o ": " \o content>>
                                     ELSE <<candidate>>

\* C21: a timestamp-led block (pattern 1) always updates the timestamp; the
\* text after the timestamp becomes the new speaker only when it splits at a
\* colon into a candidate and content and the candidate is shorter than 40
\* characters and holds none of '.', '!', '?'; in every other case, no colon
\* included, the speaker stays the previous one and all of the text after
\* the timestamp is kept as utterance text.
C21_TimestampLed == [][TimestampLedStep]_vars

\* The patterns that match a block
MatchingPatterns(line) ==
    { i \in 1..Len(METADATA_REGEXES) : RegexMatch(METADATA_REGEXES[i], line).ok }

\* The loop has handled a block
BlockHandled == spc = "segment" /\ li > 1

\* The block the loop handled last
HandledLine == strip(lines[li - 1])

\* C22: the five patterns are mutually exclusive: no block the Segmenter
\* handles is matched by more than one of them.
C22_MutuallyExclusive ==
    BlockHandled => Cardinality(MatchingPatterns(HandledLine)) <= 1

\* What a block does when the patterns are tried in the order 1 to 5
FirstMatchStep ==
    AtBlock =>
    \A matching \in {MatchingPatterns(CurrentLine)} :
        IF matching = {}
        THEN /\ current_timestamp' = current_timestamp
             /\ current_speaker' = current_speaker
        ELSE \A u \in { ApplyPattern(i, RegexMatch(METADATA_REGEXES[i], CurrentLine),
                                     CurrentLine, current_timestamp, current_speaker) :
                        i \in {Least(matching)} } :
                /\ current_timestamp' = u.timestamp
                /\ current_speaker' = u.speaker
                /\ current_prefix' = HeaderOf(u.timestamp, u.speaker)

\* C23: for each block the patterns are tried in the fixed order 1 to 5 and
\* the state update applied is that of the first pattern that matches and of
\* no other: a lower-priority pattern is applied only if every
\* higher-priority pattern failed to match.
C23_FirstMatchWins == [][FirstMatchStep]_vars

\* A block that patterns 2 and 5 match has been handled as pattern 2 has it
C23_Witness ==
    /\ spc = "segment"
    /\ li = 2
    /\ lines[1] = "Leo Laporte: see [1:02] now"
    /\ current_speaker = "Leo Laporte: see"
    /\ current_timestamp = "1:02"
    /\ buffer = <<"now">>

\* What a block that begins with a parenthesised timestamp does, as the
\* specification has it
ParenTimestampStep ==
    AtBlock =>
    \A m \in {RegexMatch(Pattern4, CurrentLine)} :
        m.ok =>
            /\ current_timestamp' = strip(MatchGroup(m, CurrentLine, 1))
            /\ current_speaker' = current_speaker

\* C24: a block that begins with a parenthesised timestamp,
\* '(<timestamp>): <content>', updates the current timestamp to that
\* timestamp and leaves the current speaker unchanged, whatever the content.
C24_ParenTimestamp == [][ParenTimestampStep]_vars

\* What a bare speaker label block does, as the specification has it
SpeakerLabelStep ==
    AtBlock =>
    \A m \in {RegexMatch(SPEAKER_NAME_RE, CurrentLine)} :
        m.ok =>
            /\ current_speaker' = strip(MatchGroup(m, CurrentLine, 1))
            /\ current_timestamp' = current_timestamp

\* C25: a bare speaker label block, '<Capitalized Name(s)>: <content>',
\* with or without emphasis markers around it, updates the current speaker
\* to that name and leaves the current timestamp unchanged, whatever the
\* content.
C25_SpeakerLabel == [][SpeakerLabelStep]_vars

-----------------------------------------------------------------------------
(* html_to_markdown: properties of the utterances *)

\* The lines a step appends to final_lines
Emitted(before, after) ==
    { after[k] : k \in (Len(before) + 1)..Len(after) }

\* Every utterance a step finalizes shows the speaker and timestamp known
\* before the step
HeaderStep ==
    \A line \in Emitted(final_lines, final_lines') :
        line = HeaderOf(current_timestamp, current_speaker)
                   \o " - " \o JoinedBuffer

\* The header of an open buffer is that of the speaker and timestamp known
\* since it was opened
OpenBufferHeader ==
    (spc = "segment" /\ buffer /= <<>>) =>
        current_prefix = HeaderOf(current_timestamp, current_speaker)

TextOf(fragments) ==
    IF strip(CollapseWhitespace(Join(fragments, " "))) = "" THEN <<>>
    ELSE <<strip(CollapseWhitespace(Join(fragments, " ")))>>

\* The utterance texts of the blocks from the k-th on, in order, open being
\* the fragments gathered since the last matched block: a matched block
\* closes the group and opens one with its content, an unmatched block
\* joins the group
RECURSIVE GroupTexts(_, _, _)
GroupTexts(blocks, k, open) ==
    IF k > Len(blocks) THEN TextOf(open)
    ELSE Only({ IF a.found
                THEN TextOf(open)
                         \o GroupTexts(blocks, k + 1,
                                       IF a.content = "" THEN <<>>
                                       ELSE <<a.content>>)
                ELSE GroupTexts(blocks, k + 1, Append(open, strip(blocks[k]))) :
                a \in {Attribution(strip(blocks[k]), NoneStr, NoneStr)} })

\* Every run of whitespace of t is a single space inside t
SingleSpaced(t) ==
    \A j \in 1..Len(t) :
        CharAt(t, j) \in Space =>
            /\ CharAt(t, j) = " "
            /\ 1 < j /\ j < Len(t)
            /\ CharAt(t, j + 1) \notin Space

\* C27: every utterance emitted has non-empty text in which every run of
\* whitespace is a single space, equal to the whitespace-collapsed,
\* space-joined concatenation, in input order, of every fragment added to
\* its buffer; a matched block with empty content that no continuation
\* follows emits no utterance.
C27_UtteranceText ==
    /\ \A k \in 1..Len(utterances) :
          /\ utterances[k].text /= ""
          /\ SingleSpaced(utterances[k].text)
          /\ final_lines[k] = utterances[k].header \o " - " \o utterances[k].text
    /\ spc = "done" =>
          /\ Len(final_lines) = Len(utterances)
          /\ [k \in 1..Len(utterances) |-> utterances[k].text]
                 = GroupTexts(lines, 1, <<>>)

\* A block with runs of whitespace has been emitted with single spaces, and
\* the label with no content after it has emitted nothing
C27_Witness ==
    /\ spc = "done"
    /\ run = 1
    /\ ep_num = 100
    /\ lines = <<"So  it \t goes", "Leo:">>
    /\ final_lines = <<"EP:100 Date:25-01-01 - - So it goes">>
    /\ current_speaker = "Leo"

-----------------------------------------------------------------------------
(* process_prefix: properties of the split decision and of the phases *)

\* The packer is about to add an episode
AtEpisode == pc = "pack" /\ idx <= Len(parsed_results)

\* The words and bytes of the episodes of a chunk
RECURSIVE ChunkWords(_)
ChunkWords(chunk) ==
    IF chunk = <<>> THEN 0
    ELSE ChunkWords(SubSeq(chunk, 1, Len(chunk) - 1)) + chunk[Len(chunk)].ep_words

RECURSIVE ChunkBytes(_)
ChunkBytes(chunk) ==
    IF chunk = <<>> THEN 0
    ELSE ChunkBytes(SubSeq(chunk, 1, Len(chunk) - 1)) + chunk[Len(chunk)].ep_bytes

\* The open chunk must be closed before the episode res is added
MustClose(chunk, res) ==
    /\ chunk /= <<>>
    /\ \/ ChunkWords(chunk) + res.ep_words > MAX_WORDS
       \/ ChunkBytes(chunk) + res.ep_bytes > MAX_BYTES
       \/ by_year /\ res.year /= chunk[Len(chunk)].year

\* What adding one episode does: the open chunk is written and the episode
\* opens a new one, or the episode joins the open chunk
SplitStep ==
    AtEpisode =>
        IF MustClose(current_chunk_content, parsed_results[idx])
        THEN /\ Len(written') = Len(written) + 1
             /\ written'[Len(written')].content = current_chunk_content
             /\ current_chunk_content' = <<parsed_results[idx]>>
        ELSE /\ written' = written
             /\ current_chunk_content' =
                    Append(current_chunk_content, parsed_results[idx])

\* The run has packed n episodes of the given word count, all of one year
Packed(n, words) ==
    /\ pc = "done"
    /\ Len(parsed_results) = n
    /\ \A k \in 1..n :
          /\ parsed_results[k].ep_words = words
          /\ parsed_results[k].year = parsed_results[1].year

\* Two small episodes of one year share a chunk, and three episodes of
\* 200000 words (Scenario B) give three chunks of one episode
SplitScenarios ==
    /\ (Packed(2, 1000) /\ parsed_results[1].ep_bytes = parsed_results[2].ep_bytes) =>
          /\ Len(written) = 1
          /\ written[1].content = parsed_results
    /\ Packed(3, 200000) =>
          /\ Len(written) = 3
          /\ \A k \in 1..3 : written[k].content = <<parsed_results[k]>>

\* C28: the packer closes the open chunk before adding an episode if and
\* only if the chunk is non-empty and adding the episode would push the word
\* total above MAX_WORDS, or the byte total above MAX_BYTES, or by_year is
\* enabled and the episode's year differs from the chunk's year; in every
\* other case the episode joins the open chunk, so that two small same-year
\* episodes share one chunk and three 200000-word episodes give three
\* single-episode chunks.
C28_SplitDecision == [][SplitStep]_vars /\ []SplitScenarios

\* Scenario B has been packed into three chunks
C28_Witness ==
    /\ Packed(3, 200000)
    /\ Len(written) = 3
    /\ written[2].words = 200000

\* A document is still being parsed
StillParsing == \E i \in 1..Len(results) : results[i] = Pending

\* Nothing is packed or written while a document is still being parsed, and
\* the packer runs over the collected result of every document
PackAfterParse ==
    /\ StillParsing =>
          /\ pc = "parse"
          /\ parsed_results = <<>>
          /\ idx = 1
          /\ current_chunk_content = <<>>
          /\ written = <<>>
    /\ (pc \in {"pack", "done"} /\ files /= <<>>) =>
          /\ Len(results) = Len(files)
          /\ Len(parsed_results) + Len(skipped) = Len(files)
          /\ \A i \in 1..Len(results) :
                \/ \E k \in 1..Len(parsed_results) : parsed_results[k] = results[i]
                \/ \E k \in 1..Len(skipped) : skipped[k] = results[i]

\* The packer takes the collected results one after the other
SequentialPass ==
    pc = "pack" =>
        /\ results' = results
        /\ parsed_results' = parsed_results
        /\ \/ /\ idx <= Len(parsed_results)
              /\ idx' = idx + 1
              /\ pc' = "pack"
              /\ current_chunk_content'[Len(current_chunk_content')]
                     = parsed_results[idx]
           \/ /\ idx > Len(parsed_results)
              /\ idx' = idx
              /\ pc' = "done"

\* C29: the packer starts only after every worker task of the prefix has
\* finished and its result has been collected, and it then runs as a single
\* sequential pass: no chunk is written while a document is still being
\* parsed.
C29_PackAfterCollect == []PackAfterParse /\ [][SequentialPass]_vars

\* A chunk has been written in the middle of the pass over three collected
\* results
C29_Witness ==
    /\ pc = "pack"
    /\ Len(results) = 3
    /\ Len(parsed_results) = 3
    /\ idx = 3
    /\ Len(written) = 1

\* The chunks the episodes from the k-th on are packed into, open being the
\* open chunk and closed the chunks closed so far
RECURSIVE ChunksOf(_, _, _, _)
ChunksOf(episodes, k, open, closed) ==
    IF k > Len(episodes)
    THEN IF open = <<>> THEN closed ELSE Append(closed, open)
    ELSE IF MustClose(open, episodes[k])
         THEN ChunksOf(episodes, k + 1, <<episodes[k]>>, Append(closed, open))
         ELSE ChunksOf(episodes, k + 1, Append(open, episodes[k]), closed)

\* The name of the file of a chunk
ChunkName(chunk) ==
    IF by_year /\ chunk[Len(chunk)].year /= 0
    THEN YearSplitName(chunk[Len(chunk)].year, chunk[1].ep_num,
                       chunk[Len(chunk)].ep_num)
    ELSE DefaultName(chunk[1].ep_num, chunk[Len(chunk)].ep_num)

\* The results of the documents that parsed, in the order of the sorted files
InFileOrder == SelectSeq(results, LAMBDA r : r /= Pending /\ ~IsError(r))

\* C30: for a fixed set of documents the sequence of chunks written (their
\* names, their episodes and the order of the episodes) is the same for
\* every completion order of the worker tasks and every number of workers:
\* each result is that of the file of its position in the sorted list, the
\* packer takes the results in that order, and the chunks are a function of
\* them.
C30_OrderIndependent ==
    /\ \A i \in 1..Len(results) :
          results[i] /= Pending => results[i].filepath = files[i]
    /\ (pc \in {"pack", "done"} /\ files /= <<>>) => parsed_results = InFileOrder
    /\ (pc = "done" /\ files /= <<>>) =>
          /\ [k \in 1..Len(written) |-> written[k].content]
                 = ChunksOf(InFileOrder, 1, <<>>, <<>>)
          /\ \A k \in 1..Len(written) :
                written[k].name = ChunkName(written[k].content)

\* The task of the last file has finished before the task of the first one
C30_Witness ==
    /\ pc = "parse"
    /\ Len(files) = 3
    /\ results[1] = Pending
    /\ results[2] = Pending
    /\ results[3] /= Pending
    /\ results[3].filepath = files[3]

-----------------------------------------------------------------------------
(* process_prefix: properties of the output files *)

\* C31: every chunk is written to its output file once, and no file written
\* during a run of process_prefix is opened for writing again later in that
\* run: no chunk overwrites an earlier chunk of the same run.
C31_NoOverwrite ==
    \A j, k \in 1..Len(written) :
        j < k => written[j].name /= written[k].name

-----------------------------------------------------------------------------
(* html_to_markdown: properties of the tags the sanitizer strips *)

\* Documents in which a tag that is no inline marker, link or paragraph
\* break is all that separates the words "one" and "two"
TagSeparatedDocs == { d \in PlainDocs : Contains(d, "one<") /\ Contains(d, ">two") }

\* C32: the sanitizer never removes a markup tag outright: every tag that is
\* not turned into an inline marker, a link or a paragraph break is replaced
\* by a space, so two words separated only by a tag are never fused into
\* one word in the output.
C32_WordsNeverFused ==
    (Sanitized /\ spc = "done" /\ html_content \in TagSeparatedDocs) =>
        /\ ~Contains(ReturnValue, "onetwo")
        /\ Contains(ReturnValue, "one two")

-----------------------------------------------------------------------------
(* parse_transcript_file: properties of the episode number *)

\* The numeric tokens of a title: its maximal runs of digits, as <<first, last>>
NumericTokens(t) ==
    { <<a, b>> \in (1..Len(t)) \X (1..Len(t)) :
        /\ a <= b
        /\ \A j \in a..b : CharAt(t, j) \in Digit
        /\ (a = 1 \/ CharAt(t, a - 1) \notin Digit)
        /\ (b = Len(t) \/ CharAt(t, b + 1) \notin Digit) }

\* What follows position b of the title, whitespace skipped, is an opening
\* parenthesis, the end of the title or the word Transcript
PrecedesMarker(t, b) ==
    \E e \in b..Len(t) :
        /\ \A j \in (b + 1)..e : CharAt(t, j) \in Space
        /\ \/ e = Len(t)
           \/ CharAt(t, e + 1) = "("
           \/ SubSeq(t, e + 1, e + 10) \in {"Transcript", "transcript"}

\* The first numeric token of the title that precedes a marker, 0 for none
TitleNumber(t) ==
    LET tokens == { tok \in NumericTokens(t) : PrecedesMarker(t, tok[2]) }
    IN  IF tokens = {} THEN 0
        ELSE LET first == CHOOSE tok \in tokens : \A o \in tokens : tok[1] <= o[1]
             IN  StrToInt(SubSeq(t, first[1], first[2]))

\* The episode number is settled when the metadata is extracted
SettleEpisodeNumber ==
    /\ dpc = "read" =>
          parse_ep_num' = IF parse_ep_num /= 0 THEN parse_ep_num
                          ELSE TitleNumber(parsed_title')
    /\ dpc /= "read" => parse_ep_num' = parse_ep_num

\* html_to_markdown is called with the settled episode number
ProcessedUnderSettled ==
    dpc \in {"markdown", "returned"} => ep_num = parse_ep_num

\* C33: the episode number a document is processed under is the number of
\* its file name when that number is non-zero; only when the file name gives
\* zero or no number is it the first numeric token of the title that
\* immediately precedes an opening parenthesis, the end of the title or the
\* word 'Transcript', and it is 0 when neither source gives a number.
C33_EpisodeNumber == [][SettleEpisodeNumber]_vars /\ []ProcessedUnderSettled

\* A document whose file name gives no number has been processed under the
\* number of its title that precedes the parenthesis, not its first number
C33_Witness ==
    /\ dpc = "returned"
    /\ parsed_title = "Windows Weekly 7 of 2020 (Special)"
    /\ parse_ep_num = 2020
    /\ ep_num = 2020

\* The episode number of a line of the returned content: the digits after
\* its "EP:"
HeaderEpNum(line) == StrToInt(SubSeq(line, 4, DigitsEnd(line, 4) - 1))

\* C34: for every parsed document, the episode number in its utterance
\* headers (EP:<num>) is the number the packer uses for the document when
\* it sorts the episodes and names the chunk's range, the number of the
\* result of _parse_single_file, also when the file name carries no number
\* and the title does.
C34_OneEpisodeNumber ==
    dpc = "returned" =>
        \A k \in 1..Len(final_lines) : HeaderEpNum(final_lines[k]) = file_ep_num

\* The formats that parse clean_date
ParsingFormats(clean_date) ==
    { k \in 1..Len(formats) : strptime(clean_date, formats[k]).ok }

\* strftime("%y-%m-%d")
DateText(dt) ==
    Pad2(dt.year % 100) \o "-" \o Pad2(dt.month) \o "-" \o Pad2(dt.day)

\* date_str without its ordinal suffixes
WithoutOrdinals(date_str) ==
    ReSub(OrdinalRe, LAMBDA m, s : MatchGroup(m, s, 1), date_str)

\* C35: parse_date_ymd returns a value for every string: the sentinel
\* 00-01-01 for the empty string and for a string none of the five templates
\* parses once its ordinal suffixes are stripped, else the YY-MM-DD of the
\* first template, in the fixed order, that parses it; 'Wednesday, February
\* 18th, 2026' gives 26-02-18
C35_DateNormalised ==
    dpc \in {"markdown", "returned"} =>
        /\ \A clean \in {WithoutOrdinals(parsed_date_str)} :
             \A ok \in {ParsingFormats(clean)} :
                ymd_date =
                    IF parsed_date_str = "" \/ ok = {} THEN "00-01-01"
                    ELSE DateText(strptime(clean,
                             formats[CHOOSE k \in ok : \A j \in ok : k <= j]))
        /\ Len(ymd_date) = 8
        /\ parsed_date_str = "Wednesday, February 18th, 2026" =>
               ymd_date = "26-02-18"
        /\ parsed_date_str = "Jan 1st 2025" => ymd_date = "25-01-01"
        /\ parsed_date_str = "Mar 28, 2008" => ymd_date = "08-03-28"
        /\ parsed_date_str \in {"Feb 30th 2025", "Wednesday, Feb 18, 2026",
                                "No year here"} => ymd_date = "00-01-01"

C35_Witness ==
    /\ dpc = "returned"
    /\ parsed_date_str = "Wednesday, February 18th, 2026"
    /\ ymd_date = "26-02-18"

\* len(text.split()) of the text written for a chunk: the words of its
\* formatted episode blocks
RECURSIVE WrittenWords(_)
WrittenWords(chunk) ==
    IF chunk = <<>> THEN 0
    ELSE WrittenWords(SubSeq(chunk, 1, Len(chunk) - 1))
             + chunk[Len(chunk)].text_words

\* C36: every written chunk that holds more than one episode has at most
\* MAX_WORDS whitespace-separated words in the text written to its file, the
\* title and date lines and the separators of its episodes included
C36_WrittenWordsBounded ==
    \A k \in 1..Len(written) :
        Len(written[k].content) > 1 =>
            WrittenWords(written[k].content) <= MAX_WORDS

\* downloaded + skipped + failed
Total(s) == s.downloaded + s.skipped + s.failed

\* The loop stands at an episode whose file exists
AtExistingFile ==
    gpc = "loop" /\ ep <= grc_end /\ grc_fs[GrcFile(ep)] /= Absent

\* The step makes an attempt that ends with the given outcome
Attempted(outcome) ==
    /\ Len(grc_attempts') = Len(grc_attempts) + 1
    /\ grc_attempts'[Len(grc_attempts')] = outcome

\* An existing file is counted as skipped: no attempt is made and no file is
\* written
ExistingSkipped ==
    AtExistingFile =>
        /\ stats' = Counted("skipped")
        /\ ep' = ep + 1
        /\ grc_fs' = grc_fs
        /\ grc_attempts' = grc_attempts

\* A 404 is counted as failed at once, and once the while loop is left the
\* episode gets no further attempt and no further count
NotFoundOnce ==
    /\ (gpc = "try" /\ Attempted("404")) =>
           stats' = Counted("failed") /\ gpc' = "after"
    /\ gpc = "after" =>
           stats' = stats /\ grc_attempts' = grc_attempts /\ ep' = ep + 1

\* Any other count of a failure follows three attempts that raised
FailedAfterThree ==
    (gpc = "try" /\ stats'.failed = stats.failed + 1 /\ ~Attempted("404")) =>
        /\ Len(grc_attempts) = 3
        /\ \A k \in 1..3 : grc_attempts[k] \in {"error", "404"}
        /\ grc_attempts[3] = "error"

\* Every episode the loop has dealt with is counted once
CountedOnce ==
    /\ gpc \in {"loop", "try"} => Total(stats) = ep - grc_start
    /\ gpc = "after" => Total(stats) = ep - grc_start + 1

GrcSteps == ExistingSkipped /\ NotFoundOnce /\ FailedAfterThree

\* C37 as stated: every episode of start_ep..end_ep is counted once, an
\* existing file as skipped with no fetch and no write, a 404 as failed once
\* with no further attempt, any other failure as failed after 3 attempts, and
\* on return downloaded + skipped + failed = end_ep - start_ep + 1
C37_CountsRange ==
    /\ [][GrcSteps]_vars
    /\ [](CountedOnce /\
          (gpc = "returned" => Total(grc_ret) = grc_end - grc_start + 1))

\* C37, amended: the same, with downloaded + skipped + failed on return equal
\* to the number of episodes of start_ep..end_ep, which is 0 when end_ep lies
\* before start_ep
C37_CountsEpisodes ==
    /\ [][GrcSteps]_vars
    /\ [](CountedOnce /\
          (gpc = "returned" =>
              Total(grc_ret) = Cardinality(grc_start..grc_end)))

C37_Witness ==
    /\ gpc = "returned"
    /\ grc_start = 1
    /\ grc_end = 3
    /\ grc_ret = [downloaded |-> 1, skipped |-> 1, failed |-> 1]
    /\ grc_attempts = <<"error", "error", "error">>

=============================================================================
